---- MODULE Spec2Model ----
(***************************************************************************)
(* Model of the anonymity pipeline of the encrypted browser tunnel: the    *)
(* two-epoch mixing pool (anonymity/mixing.rs), the delay queue            *)
(* (anonymity/delay.rs), the path-epoch rotator (anonymity/path_epoch.rs), *)
(* the regression harness that drives mix -> delay tick by tick            *)
(* (anonymity_regression_gate.rs) and the binding pump                     *)
(* (anonymity_binding.rs).                                                 *)
(*                                                                         *)
(* A frame (Vec<u8>) is modelled by the identity of the enqueued object,   *)
(* a number 1..MaxFrames handed out in enqueue order (the harness does the *)
(* same with id.to_be_bytes()).  Instants and durations are natural        *)
(* numbers of nanoseconds on one monotonic clock.  Every draw from an RNG  *)
(* (shuffle, next_u64) is a nondeterministic choice.                       *)
(***************************************************************************)
EXTENDS Integers, Sequences, FiniteSets, TLC

(* ------------------------------ bounds --------------------------------- *)
\* Frames created in the stand-alone mixing pool.
MixMaxFrames == 4
\* Largest max_frames argument tried for the stand-alone drain calls.
MaxBatch == 3

\* Frames created in the stand-alone delay queue.
DelayMaxFrames == 2
\* Frames created in the delay queue when its ready buffer is looked at.
FifoMaxFrames == 3
\* Largest delay bound (nanoseconds) a UniformDelay is configured with.
MaxDelayNs == 2
\* Largest value rng.next_u64() returns in the model.
RngMax == 1
\* Largest number of paths a PathEpoch is built with.
MaxPaths == 3
\* Largest value rng.next_u64() returns when a path index is drawn.
PathRngMax == 2
\* Largest epoch duration bound (nanoseconds) of a UniformEpochDuration.
MaxEpochNs == 2
\* Last instant of the monotonic clock.
MaxTime == 2

\* Frames the producers hand to the protocol engine of the pump.
PumpMaxFrames == 2
\* Last instant at which the pump's worker starts an iteration.
PumpMaxTime == 1
\* enqueue calls the producers make
SharedMaxCalls == 2
\* The pump's batch sizes, scaled so that a batch can fill up.
MAX_MIX_BATCH == 2
MAX_RELEASE_BATCH == 2

\* The regression harness, scaled: ingress window and delay bounds in
\* ticks, batch sizes far above the frames that enter per tick.
INGRESS_WINDOW_TICKS == 2
MIN_DELAY_MS == 1
MAX_DELAY_MS == 2
Gate_MAX_MIX_BATCH == 4
Gate_MAX_RELEASE_BATCH == 16
\* run_simulation(users, total_frames) as the two tests call it, scaled:
\* total_frames is a multiple of users * INGRESS_WINDOW_TICKS.
GateRuns == {<<1, 2>>, <<1, 4>>, <<2, 4>>}

\* The frame codec: the size limit, the two frame types and the protocol
\* version of the anonymity engine.
MAX_FRAME_SIZE == 1048576
\* Buckets of the byte-length histograms.
BYTE_BUCKETS == 21
FRAME_TYPE_CONTROL == 1
FRAME_TYPE_DATA == 2
ANONYMITY_PROTOCOL_VERSION == 2

\* u32::MAX and usize::MAX, scaled down.
U32Max == 15
UsizeMax == 3
\* Longest payload handed to encode_frame, and frames in the stream the
\* transport delivers to the engine.
MaxPayloadLen == 2
MaxInboundFrames == 2
\* The default window of ConnectionTable::new, scaled with u32.
DEFAULT_WINDOW_SIZE == 4
\* How many calls of the connection table are rejected for a limit.
MaxRejects == 1
\* Frames queued in the per-connection engine.
LegacyMaxFrames == 3
\* How many byte lengths are recorded, and how often one error class.
ObsMaxRecords == 1
\* RelayLimits of the table: room for two connections, one of them being
\* opened, and one buffered byte per connection.
TableLimits ==
    [max_connections |-> 2, max_inflight_opens |-> 1,
     max_buffered_bytes |-> 1]

\* "not yet" in the per-frame histories.
NONE == 0 - 1

(* ------------------------------ helpers -------------------------------- *)
Range(s) == {s[i] : i \in 1..Len(s)}

\* slice.shuffle(rng): any permutation of the sequence may come out.
Shuffle(s) ==
    {[i \in 1..Len(s) |-> s[p[i]]] :
        p \in {q \in [1..Len(s) -> 1..Len(s)] : Range(q) = 1..Len(s)}}

\* Vec::pop: the sequence without its last element.
Front(s) == SubSeq(s, 1, Len(s) - 1)

VARIABLES
    \* MixingPool
    current_epoch, next_epoch,
    \* history of the mixing pool: frames created so far, number of epoch
    \* swaps so far, swap count when frame f was enqueued (enqEpoch[f]) and
    \* popped (leftEpoch[f], NONE while held), and the batch returned by the
    \* last drain_batch call
    next_id, rotations, enqEpoch, leftEpoch, lastMixBatch,
    \* UniformDelay { min_ns, max_ns }
    min_ns, max_ns,
    \* DelayQueue: the heap as the set of its PendingFrame records, and the
    \* ready buffer
    pending, ready,
    \* the monotonic clock (Instant::now(), or base + tick in the harness)
    clock,
    \* history of the delay queue: per frame the instant of enqueue_at, the
    \* stored ready_at, the now of the drain that moved it out of the heap,
    \* the now of the drain that returned it and how often it was returned;
    \* the batch of the last collect_ready as popped from the heap and as
    \* appended to the ready buffer, and the list returned by the last
    \* drain_ready_at
    dq, lastPopped, lastCollected, lastReleased,
    \* UniformEpochDuration { min_ns, max_ns }
    epoch_min_ns, epoch_max_ns,
    \* PathEpoch: paths.len(), current_index, next_rotation, epoch_nonce
    n_paths, current_index, next_rotation, epoch_nonce,
    \* history of the rotator: the current index after construction and
    \* after every rotation, and the result of the last rotate_if_due
    pathTrail, lastRotated,
    \* run_simulation: its arguments, where it stands ("idle", "loop",
    \* "done", or "panic" after a failed assert_eq), sent, and the ingress
    \* and egress maps (frame id -> tick); its tick is the clock
    users, total_frames, hpc, sent, ingress, egress,
    \* AnonymityBindingPump: the shared running flag; where start() and
    \* the worker stand (ppc); the worker's local now; the transports the
    \* factory opened (opened[t] is the path index transport t was opened
    \* for) and the one the worker holds; what the transports received, in
    \* order, as records [t, f]
    running, ppc, now_l, opened, transport, wire,
    \* ERROR_COUNTS of the observability core
    error_counts,
    \* history of the pump: iterations started, whether stop() was called
    \* after start() and the iteration count at that moment, whether a
    \* send_bytes call failed, and for the current iteration the batch
    \* drained, the length of wire when it was drained, the transport held
    \* at that moment and whether the iteration installed a new transport
    iter, stopCalled, iterAtStop, sendFailed, tickBatch, tickStart, tickOld,
    tickRotated,
    \* the mutex around the protocol engine: "free", "worker" while the
    \* worker holds the guard, or the producer that holds it; and the history
    \* of the producers' enqueue calls, one record per call with the length
    \* of the payload and the frame it became (NONE when none was pooled)
    engine_lock, offered,
    \* frame codec: the arguments of the last encode_frame call and what it
    \* wrote (cx_frame, cx_wire), the bytes the last decode_frame call read
    \* from and what it returned (cx_stream, cx_dec)
    cx_frame, cx_wire, cx_stream, cx_dec,
    \* AnonymityProtocolEngine: its inbound_buffer; the byte stream the
    \* transport delivers and how much of it was handed over so far
    \* (eng_src, eng_pos); the DataFrames returned by the last
    \* on_transport_bytes call and by all calls so far (eng_last, eng_out)
    inbound_buffer, eng_src, eng_pos, eng_last, eng_out,
    \* ConnectionTable: connections (conn_id -> ConnectionInfo),
    \* inflight_opens, limits, metrics, default_window_size; whether a
    \* call panicked on an arithmetic overflow
    connections, inflight_opens, limits, metrics, default_window_size,
    tbl_panicked,
    \* ProtocolEngine: outbound_frames (conn_id -> Vec of frames);
    \* BindingPump: the conn_ids it holds a transport for; history: per
    \* connection the frames in the order they were queued and in the order
    \* they were written to its transport
    outbound_frames, transports, lg_queued, lg_wire,
    \* observability core: the byte in HEALTH_STATE, the value returned by
    \* the last get_health, the two histograms, and the byte lengths
    \* recorded so far
    health_state, obs_health, bytes_sent_coarse, bytes_received_coarse,
    obs_lens

mixVars == <<current_epoch, next_epoch, next_id, rotations, enqEpoch,
             leftEpoch, lastMixBatch>>
delayVars == <<min_ns, max_ns, pending, ready, dq, lastPopped, lastCollected,
               lastReleased>>

pathVars == <<epoch_min_ns, epoch_max_ns, n_paths, current_index,
              next_rotation, epoch_nonce, pathTrail, lastRotated>>

gateVars == <<users, total_frames, hpc, sent, ingress, egress>>

codecVars == <<cx_frame, cx_wire, cx_stream, cx_dec>>

inboundVars == <<inbound_buffer, eng_src, eng_pos, eng_last, eng_out>>

tableVars == <<connections, inflight_opens, limits, metrics,
               default_window_size, tbl_panicked>>

legacyVars == <<outbound_frames, transports, lg_queued, lg_wire>>

obsVars == <<health_state, obs_health, bytes_sent_coarse,
             bytes_received_coarse, obs_lens>>

relayVars == <<codecVars, inboundVars, tableVars, legacyVars, obsVars>>

pumpVars == <<running, ppc, now_l, opened, transport, wire,
              error_counts, iter, stopCalled, iterAtStop, sendFailed,
              tickBatch, tickStart, tickOld, tickRotated,
              engine_lock, offered>>

vars == <<mixVars, delayVars, clock, pathVars, gateVars, pumpVars,
          relayVars>>

(* ============================ MixingPool =============================== *)

\* Variant of enqueue that pushes onto the epoch being drained.
MixingPool_enqueue_current(cur, nxt, frame) ==
    [cur |-> Append(cur, frame), nxt |-> nxt]

\* MixingPool::enqueue: push onto next_epoch.
MixingPool_enqueue(cur, nxt, frame) ==
    [cur |-> cur, nxt |-> Append(nxt, frame)]

\* Variant of rotate_epoch that swaps the vectors without shuffling.
rotate_epoch_unshuffled(cur, nxt, rot) ==
    IF nxt = <<>>
    THEN {[cur |-> cur, nxt |-> nxt, rot |-> rot]}
    ELSE {[cur |-> nxt, nxt |-> cur, rot |-> rot + 1]}

\* MixingPool::rotate_epoch: nothing when next_epoch is empty; otherwise swap
\* the two vectors and shuffle the new current_epoch.  rot counts the swaps.
rotate_epoch(cur, nxt, rot) ==
    IF nxt = <<>>
    THEN {[cur |-> cur, nxt |-> nxt, rot |-> rot]}
    ELSE {[cur |-> s, nxt |-> cur, rot |-> rot + 1] : s \in Shuffle(nxt)}

\* The while loop of MixingPool::drain_batch.  Returns the set of possible
\* results (one per shuffle outcome); popRot[i] is the swap count at the
\* moment drained[i] was popped.
RECURSIVE drain_loop(_, _, _, _, _, _)
drain_loop(cur, nxt, rot, drained, popRot, max_frames) ==
    LET result(c, n, r, d, p) ==
            [cur |-> c, nxt |-> n, rot |-> r, drained |-> d, popRot |-> p]
        pop(c, n, r) ==
            IF c # <<>>
            THEN drain_loop(Front(c), n, r, Append(drained, c[Len(c)]),
                            Append(popRot, r), max_frames)
            ELSE {result(c, n, r, drained, popRot)}
    IN  IF Len(drained) >= max_frames
        THEN {result(cur, nxt, rot, drained, popRot)}
        ELSE IF cur = <<>>
             THEN IF nxt = <<>>
                  THEN {result(cur, nxt, rot, drained, popRot)}
                  ELSE UNION {pop(e.cur, e.nxt, e.rot) :
                                e \in rotate_epoch(cur, nxt, rot)}
             ELSE pop(cur, nxt, rot)

\* MixingPool::drain_batch(max_frames).
MixingPool_drain_batch(cur, nxt, rot, max_frames) ==
    IF max_frames = 0
    THEN {[cur |-> cur, nxt |-> nxt, rot |-> rot,
           drained |-> <<>>, popRot |-> <<>>]}
    ELSE drain_loop(cur, nxt, rot, <<>>, <<>>, max_frames)

\* leftEpoch after a drain_batch call with result o.
mix_left(le, o) ==
    [f \in DOMAIN le |->
        IF \E i \in 1..Len(o.drained) : o.drained[i] = f
        THEN o.popRot[CHOOSE i \in 1..Len(o.drained) : o.drained[i] = f]
        ELSE le[f]]

\* State update of a drain_batch call with result o.
MixDrained(o) ==
    /\ current_epoch' = o.cur
    /\ next_epoch' = o.nxt
    /\ rotations' = o.rot
    /\ leftEpoch' = mix_left(leftEpoch, o)
    /\ lastMixBatch' = o.drained

\* State update of an enqueue call with the next frame created.
MixEnqueued(frame) ==
    LET o == MixingPool_enqueue(current_epoch, next_epoch, frame)
    IN  /\ current_epoch' = o.cur
        /\ next_epoch' = o.nxt
        /\ next_id' = frame
        /\ enqEpoch' = Append(enqEpoch, rotations)
        /\ leftEpoch' = Append(leftEpoch, NONE)

MixInit ==
    /\ current_epoch = <<>>
    /\ next_epoch = <<>>
    /\ next_id = 0
    /\ rotations = 0
    /\ enqEpoch = <<>>
    /\ leftEpoch = <<>>
    /\ lastMixBatch = <<>>

(* ============================ DelayQueue =============================== *)

\* u64::saturating_sub.
saturating_sub(a, b) == IF a > b THEN a - b ELSE 0

\* UniformDelay::new: TRUE when the constructor returns Ok.  (The u64
\* conversions cannot fail for the durations of the model.)
UniformDelay_new(min, max) ==
    IF min = 0 THEN FALSE
    ELSE IF max < min THEN FALSE
    ELSE TRUE

\* Variant of sample_delay that adds the raw draw instead of the offset.
sample_delay_raw(min, max, r) == min + r

\* UniformDelay::sample_delay with r the value of rng.next_u64().  The
\* saturating_add cannot saturate: offset <= span, so the sum is <= max_ns.
sample_delay(min, max, r) ==
    LET span == saturating_sub(max, min)
        offset == IF span = 0 THEN 0 ELSE r % (span + 1)
    IN  min + offset

\* impl Ord for PendingFrame: by ready_at, then by nonce.
PendingFrame_cmp(a, b) ==
    IF a.ready_at < b.ready_at THEN 0 - 1
    ELSE IF a.ready_at > b.ready_at THEN 1
    ELSE IF a.nonce < b.nonce THEN 0 - 1
    ELSE IF a.nonce > b.nonce THEN 1
    ELSE 0

\* BinaryHeap<Reverse<PendingFrame>>::peek: a least element of the heap
\* (which one of several equal elements is up to the heap).
heap_peek(pend) ==
    {p \in pend : \A q \in pend : PendingFrame_cmp(p, q) <= 0}

\* DelayQueue::enqueue_at(now, frame); r_delay and r_nonce are the two RNG
\* draws.  Returns the new PendingFrame.
DelayQueue_enqueue_at(now, frame, r_delay, r_nonce) ==
    LET sampled == sample_delay(min_ns, max_ns, r_delay)
        delay == IF sampled = 0 THEN 1 ELSE sampled
    IN  [ready_at |-> now + delay, nonce |-> r_nonce, frame |-> frame]

\* Variant of the collect loop that pops the whole heap, due or not.
RECURSIVE collect_loop_all(_, _, _)
collect_loop_all(pend, popped, now) ==
    IF pend = {}
    THEN {<<pend, popped>>}
    ELSE UNION {collect_loop_all(pend \ {peek}, Append(popped, peek.frame),
                                 now) : peek \in heap_peek(pend)}

\* The while loop of DelayQueue::collect_ready: pop while the least element
\* is due.  Returns the possible <<heap left, frames popped in order>>.
RECURSIVE collect_loop(_, _, _)
collect_loop(pend, popped, now) ==
    IF pend = {}
    THEN {<<pend, popped>>}
    ELSE UNION {IF peek.ready_at > now
                THEN {<<pend, popped>>}
                ELSE collect_loop(pend \ {peek},
                                  Append(popped, peek.frame), now) :
                    peek \in heap_peek(pend)}

\* Variant of collect_ready that appends the batch in heap order.
collect_ready_unshuffled(pend, rdy, now) ==
    {[pending |-> c[1], ready |-> rdy \o c[2], popped |-> c[2],
      collected |-> c[2]] :
        c \in collect_loop(pend, <<>>, now)}

\* DelayQueue::collect_ready(now): the popped batch is shuffled and appended
\* to the ready buffer.
collect_ready(pend, rdy, now) ==
    UNION {IF c[2] = <<>>
           THEN {[pending |-> c[1], ready |-> rdy, popped |-> <<>>,
                  collected |-> <<>>]}
           ELSE {[pending |-> c[1], ready |-> rdy \o sh, popped |-> c[2],
                  collected |-> sh] : sh \in Shuffle(c[2])} :
              c \in collect_loop(pend, <<>>, now)}

\* Variant of drain_ready_at that returns the frames without removing them
\* from the ready buffer.
DelayQueue_drain_ready_at_keep(pend, rdy, now, max_frames) ==
    IF max_frames = 0
    THEN {[pending |-> pend, ready |-> rdy, popped |-> <<>>,
           collected |-> <<>>, drained |-> <<>>]}
    ELSE {LET n == IF Len(c.ready) < max_frames THEN Len(c.ready)
                   ELSE max_frames
          IN  [pending |-> c.pending, ready |-> c.ready, popped |-> c.popped,
               collected |-> c.collected, drained |-> SubSeq(c.ready, 1, n)] :
             c \in collect_ready(pend, rdy, now)}

\* Variant of drain_ready_at that returns nothing unless the call moved a
\* frame out of the heap.
DelayQueue_drain_ready_at_fresh_only(pend, rdy, now, max_frames) ==
    IF max_frames = 0
    THEN {[pending |-> pend, ready |-> rdy, popped |-> <<>>,
           collected |-> <<>>, drained |-> <<>>]}
    ELSE {LET n == IF c.collected = <<>> THEN 0
                   ELSE IF Len(c.ready) < max_frames THEN Len(c.ready)
                   ELSE max_frames
          IN  [pending |-> c.pending,
               ready |-> SubSeq(c.ready, n + 1, Len(c.ready)),
               popped |-> c.popped, collected |-> c.collected,
               drained |-> SubSeq(c.ready, 1, n)] :
             c \in collect_ready(pend, rdy, now)}

\* Variant of drain_ready_at that pops from the back of the ready buffer.
DelayQueue_drain_ready_at_lifo(pend, rdy, now, max_frames) ==
    IF max_frames = 0
    THEN {[pending |-> pend, ready |-> rdy, popped |-> <<>>,
           collected |-> <<>>, drained |-> <<>>]}
    ELSE {LET n == IF Len(c.ready) < max_frames THEN Len(c.ready)
                   ELSE max_frames
              m == Len(c.ready)
          IN  [pending |-> c.pending,
               ready |-> SubSeq(c.ready, 1, m - n),
               popped |-> c.popped, collected |-> c.collected,
               drained |-> [i \in 1..n |-> c.ready[m + 1 - i]]] :
             c \in collect_ready(pend, rdy, now)}

\* DelayQueue::drain_ready_at(now, max_frames).
DelayQueue_drain_ready_at(pend, rdy, now, max_frames) ==
    IF max_frames = 0
    THEN {[pending |-> pend, ready |-> rdy, popped |-> <<>>,
           collected |-> <<>>, drained |-> <<>>]}
    ELSE {LET n == IF Len(c.ready) < max_frames THEN Len(c.ready)
                   ELSE max_frames
          IN  [pending |-> c.pending,
               ready |-> SubSeq(c.ready, n + 1, Len(c.ready)),
               popped |-> c.popped, collected |-> c.collected,
               drained |-> SubSeq(c.ready, 1, n)] :
             c \in collect_ready(pend, rdy, now)}

\* The history after PendingFrame pf was pushed at instant now.
dq_enqueued(h, now, pf) ==
    (pf.frame :> [enq |-> now, ready_at |-> pf.ready_at, collected |-> NONE,
                  released |-> NONE, count |-> 0]) @@ h

\* The history after a drain_ready_at call at instant now with result o.
dq_drained(h, now, o) ==
    [f \in DOMAIN h |->
        LET c == IF f \in Range(o.collected)
                 THEN [h[f] EXCEPT !.collected = now] ELSE h[f]
            k == Cardinality({i \in 1..Len(o.drained) : o.drained[i] = f})
        IN  IF k > 0
            THEN [c EXCEPT !.released = now, !.count = @ + k]
            ELSE c]

\* for frame in frames { delay.enqueue_at(now, frame) }: the possible
\* <<heap, history>> after the loop, one per sequence of RNG draws.
RECURSIVE enqueue_all(_, _, _, _)
enqueue_all(pend, h, now, frames) ==
    IF frames = <<>>
    THEN {<<pend, h>>}
    ELSE UNION {LET pf == DelayQueue_enqueue_at(now, Head(frames), r_delay,
                                                r_nonce)
                IN  enqueue_all(pend \cup {pf}, dq_enqueued(h, now, pf), now,
                                Tail(frames)) :
                    r_delay \in 0..RngMax, r_nonce \in 0..RngMax}

\* State update of an enqueue_at call at instant now.
DelayEnqueued(now, frame, r_delay, r_nonce) ==
    LET pf == DelayQueue_enqueue_at(now, frame, r_delay, r_nonce)
    IN  /\ pending' = pending \cup {pf}
        /\ dq' = dq_enqueued(dq, now, pf)

\* State update of a drain_ready_at call at instant now with result o.
DelayDrained(now, o) ==
    /\ pending' = o.pending
    /\ ready' = o.ready
    /\ lastPopped' = o.popped
    /\ lastCollected' = o.collected
    /\ lastReleased' = o.drained
    /\ dq' = dq_drained(dq, now, o)

\* DelayQueue::with_rng over a successfully constructed UniformDelay.
DelayInit ==
    /\ min_ns \in 0..MaxDelayNs
    /\ max_ns \in 0..MaxDelayNs
    /\ UniformDelay_new(min_ns, max_ns)
    /\ pending = {}
    /\ ready = <<>>
    /\ dq = <<>>
    /\ lastPopped = <<>>
    /\ lastCollected = <<>>
    /\ lastReleased = <<>>

(* ============================= PathEpoch =============================== *)

\* UniformEpochDuration::new: TRUE when the constructor returns Ok.
UniformEpochDuration_new(min, max) ==
    IF min = 0 THEN FALSE
    ELSE IF max < min THEN FALSE
    ELSE TRUE

\* UniformEpochDuration::sample_duration with r the value of next_u64().
sample_duration(min, max, r) ==
    LET span == saturating_sub(max, min)
        offset == IF span = 0 THEN 0 ELSE r % (span + 1)
    IN  min + offset

\* Variant of select_next_index that keeps the index the RNG drew.
select_next_index_raw(n, cur, r) ==
    IF n = 1 THEN 0 ELSE r % n

\* PathEpoch::select_next_index with r the value of rng.next_u64().
select_next_index(n, cur, r) ==
    IF n = 1
    THEN 0
    ELSE LET idx == r % n
         IN  IF idx = cur THEN (idx + 1) % n ELSE idx

\* PathEpoch::is_due.
is_due(now) == now >= next_rotation

\* Variant of schedule_next_rotation that does not coerce a sampled
\* duration to at least 1 ns and samples from zero upwards.
schedule_next_rotation_from_zero(now, r_dur) ==
    now + sample_duration(0, epoch_max_ns, r_dur)

\* PathEpoch::schedule_next_rotation: the new next_rotation.
schedule_next_rotation(now, r_dur) ==
    LET sampled == sample_duration(epoch_min_ns, epoch_max_ns, r_dur)
        duration == IF sampled = 0 THEN 1 ELSE sampled
    IN  now + duration

\* PathEpoch::commit_rotation(next_index, now): the possible new values of
\* <<current_index, epoch_nonce, next_rotation>>, one per pair of RNG draws.
commit_rotation(next_index, now) ==
    {<<next_index, r_nonce, schedule_next_rotation(now, r_dur)>> :
        r_nonce \in 0..RngMax, r_dur \in 0..RngMax}

\* PathEpoch::rotate_if_due(now); lastRotated' is the value returned.
rotate_if_due(now) ==
    IF ~is_due(now)
    THEN /\ lastRotated' = FALSE
         /\ UNCHANGED <<current_index, epoch_nonce, next_rotation, pathTrail>>
    ELSE /\ lastRotated' = TRUE
         /\ \E c \in UNION {commit_rotation(
                                select_next_index(n_paths, current_index,
                                                  r_idx), now) :
                            r_idx \in 0..PathRngMax} :
               /\ current_index' = c[1]
               /\ epoch_nonce' = c[2]
               /\ next_rotation' = c[3]
               /\ pathTrail' = Append(pathTrail, c[1])

\* PathEpoch::with_rng at instant now over a non-empty path list and a
\* successfully constructed UniformEpochDuration.
PathInit(now) ==
    /\ epoch_min_ns \in 0..MaxEpochNs
    /\ epoch_max_ns \in 0..MaxEpochNs
    /\ UniformEpochDuration_new(epoch_min_ns, epoch_max_ns)
    /\ n_paths \in 0..MaxPaths
    /\ n_paths # 0
    /\ \E r_idx \in 0..PathRngMax, r_dur \in 0..RngMax :
          /\ current_index = r_idx % n_paths
          /\ next_rotation = schedule_next_rotation(now, r_dur)
    /\ epoch_nonce \in 0..RngMax
    /\ pathTrail = <<current_index>>
    /\ lastRotated = FALSE

(* ========================= regression harness ========================== *)

\* run_simulation, lines 63-81: the state before the first tick.
GateInit ==
    /\ \E run \in GateRuns : users = run[1] /\ total_frames = run[2]
    /\ hpc = "loop"
    /\ sent = 0
    /\ ingress = <<>>
    /\ egress = <<>>
    /\ min_ns = MIN_DELAY_MS
    /\ max_ns = MAX_DELAY_MS
    /\ UniformDelay_new(min_ns, max_ns)
    /\ pending = {} /\ ready = <<>> /\ dq = <<>>
    /\ lastPopped = <<>> /\ lastCollected = <<>> /\ lastReleased = <<>>

frames_per_user_per_tick == total_frames \div (users * INGRESS_WINDOW_TICKS)

end_tick == INGRESS_WINDOW_TICKS + MAX_DELAY_MS + 1

\* The ingress loops of one tick (lines 86-102): how many frames are
\* created; the inner loops stop once sent reaches total_frames.
gate_ingress(tick) ==
    IF tick < INGRESS_WINDOW_TICKS /\ sent < total_frames
    THEN LET want == frames_per_user_per_tick * users
             room == total_frames - sent
         IN  IF want < room THEN want ELSE room
    ELSE 0

\* mixing.enqueue for the frames first..last, in order.
RECURSIVE gate_enqueue(_, _, _, _)
gate_enqueue(cur, nxt, first, last) ==
    IF first > last
    THEN [cur |-> cur, nxt |-> nxt]
    ELSE LET o == MixingPool_enqueue(cur, nxt, first)
         IN  gate_enqueue(o.cur, o.nxt, first + 1, last)

\* One iteration of the for loop of run_simulation (lines 83-118), and,
\* when it is the last one, the two assert_eq that follow the loop.
GateTick ==
    /\ hpc = "loop"
    /\ clock <= end_tick
    /\ LET tick == clock
           n == gate_ingress(tick)
           ids == (sent + 1)..(sent + n)
           m == gate_enqueue(current_epoch, next_epoch, sent + 1, sent + n)
           sent1 == sent + n
       IN  /\ sent' = sent1
           /\ next_id' = sent1
           /\ ingress' = [f \in DOMAIN ingress \cup ids |->
                            IF f \in ids THEN tick ELSE ingress[f]]
           /\ enqEpoch' = enqEpoch \o [f \in 1..n |-> rotations]
           /\ \E mo \in MixingPool_drain_batch(m.cur, m.nxt, rotations,
                                                Gate_MAX_MIX_BATCH) :
                /\ current_epoch' = mo.cur
                /\ next_epoch' = mo.nxt
                /\ rotations' = mo.rot
                /\ lastMixBatch' = mo.drained
                /\ leftEpoch' = mix_left(leftEpoch \o [f \in 1..n |-> NONE],
                                         mo)
                /\ \E eo \in enqueue_all(pending, dq, tick, mo.drained) :
                   \E do \in DelayQueue_drain_ready_at(
                                 eo[1], ready, tick, Gate_MAX_RELEASE_BATCH) :
                     LET egress1 == [f \in DOMAIN egress
                                           \cup Range(do.drained) |->
                                        IF f \in Range(do.drained) THEN tick
                                        ELSE egress[f]]
                         all == sent1 = total_frames
                                /\ Cardinality(DOMAIN egress1) = total_frames
                         over == all \/ tick = end_tick
                     IN  /\ pending' = do.pending
                         /\ ready' = do.ready
                         /\ lastPopped' = do.popped
                         /\ lastCollected' = do.collected
                         /\ lastReleased' = do.drained
                         /\ dq' = dq_drained(eo[2], tick, do)
                         /\ egress' = egress1
                         /\ clock' = IF over THEN clock ELSE clock + 1
                         /\ hpc' = IF ~over THEN "loop"
                                   ELSE IF all THEN "done" ELSE "panic"
    /\ UNCHANGED <<relayVars,
                   min_ns, max_ns, pathVars, users, total_frames, pumpVars>>

GateIdle ==
    /\ users = 1 /\ total_frames = 0 /\ hpc = "idle" /\ sent = 0
    /\ ingress = <<>> /\ egress = <<>>

(* ========================= observability core ========================= *)

ErrorClass ==
    {"PROTOCOL_VIOLATION", "TRANSPORT_IO", "RESOURCE_LIMIT", "INTERNAL_ASSERT"}

\* record_error(class): the counters after the call.
record_error(counts, class) ==
    IF class \in ErrorClass
    THEN [counts EXCEPT ![class] = @ + 1]
    ELSE counts

(* ======================= AnonymityBindingPump ========================== *)

\* AnonymityBindingPump::new: nothing started, running is false.  ppc is
\* "unstarted" until start() ran, then "nostart" when start() returned
\* without a worker, or the worker's place: "check" (the loop test),
\* "release" (lines 73-94), "mix" (lines 96-107), "done" (thread over).
PumpInit ==
    /\ running = FALSE
    /\ ppc = "unstarted"
    /\ now_l = 0
    /\ opened = <<>>
    /\ transport = 0
    /\ wire = <<>>
    /\ error_counts = [c \in ErrorClass |-> 0]
    /\ iter = 0
    /\ stopCalled = FALSE
    /\ iterAtStop = 0
    /\ sendFailed = FALSE
    /\ tickBatch = <<>>
    /\ tickStart = 0
    /\ tickOld = 0
    /\ tickRotated = FALSE
    /\ engine_lock = "free"
    /\ offered = <<>>

\* A producer: AnonymityProtocolEngine::enqueue under the engine mutex.
EngineEnqueue ==
    /\ next_id < PumpMaxFrames
    /\ MixEnqueued(next_id + 1)
    /\ UNCHANGED <<relayVars,
                   rotations, lastMixBatch, delayVars, clock, pathVars,
                   gateVars, pumpVars>>

\* Variant of start that returns on a factory failure without clearing the
\* flag it has set.
PumpStart_flag_left_set ==
    /\ ppc = "unstarted"
    /\ \/ /\ running' = TRUE
          /\ opened' = Append(opened, current_index)
          /\ transport' = Len(opened) + 1
          /\ ppc' = "check"
       \/ /\ running' = TRUE
          /\ ppc' = "nostart"
          /\ UNCHANGED <<opened, transport>>
    /\ UNCHANGED <<relayVars,
                   mixVars, delayVars, clock, pathVars, gateVars, now_l, wire,
                   error_counts, iter, stopCalled, iterAtStop, sendFailed,
                   tickBatch, tickStart, tickOld, tickRotated,
                   engine_lock, offered>>

\* AnonymityBindingPump::start up to thread::spawn (lines 53-69): the flag
\* is set, the transport of the current path is opened; when the factory
\* fails the flag is cleared and no worker is spawned.
PumpStart ==
    /\ ppc = "unstarted"
    /\ \/ /\ running' = TRUE
          /\ opened' = Append(opened, current_index)
          /\ transport' = Len(opened) + 1
          /\ ppc' = "check"
       \/ /\ running' = FALSE
          /\ ppc' = "nostart"
          /\ UNCHANGED <<opened, transport>>
    /\ UNCHANGED <<relayVars,
                   mixVars, delayVars, clock, pathVars, gateVars, now_l, wire,
                   error_counts, iter, stopCalled, iterAtStop, sendFailed,
                   tickBatch, tickStart, tickOld, tickRotated,
                   engine_lock, offered>>

\* AnonymityBindingPump::stop, from any other thread.
PumpStop ==
    /\ running' = FALSE
    /\ stopCalled' = (stopCalled \/ ppc # "unstarted")
    /\ iterAtStop' = IF stopCalled \/ ppc = "unstarted" THEN iterAtStop
                     ELSE iter
    /\ UNCHANGED <<relayVars,
                   mixVars, delayVars, clock, pathVars, gateVars, ppc, now_l,
                   opened, transport, wire, error_counts, iter, sendFailed,
                   tickBatch, tickStart, tickOld, tickRotated,
                   engine_lock, offered>>

\* Variant of the loop test that does not look at the flag.
loop_test_ignoring_flag == TRUE

\* while *running.lock().unwrap()
loop_test == running

\* Top of the worker loop (lines 70-71): leave when the flag is false,
\* otherwise read the clock.
WorkerCheck ==
    /\ ppc = "check"
    /\ IF loop_test
       THEN /\ clock <= PumpMaxTime
            /\ now_l' = clock
            /\ iter' = iter + 1
            /\ ppc' = "release"
       ELSE /\ ppc' = "done"
            /\ UNCHANGED <<now_l, iter>>
    /\ UNCHANGED <<relayVars,
                   mixVars, delayVars, clock, pathVars, gateVars, running,
                   opened, transport, wire, error_counts, stopCalled,
                   iterAtStop, sendFailed, tickBatch, tickStart, tickOld,
                   tickRotated,
                   engine_lock, offered>>

\* Variant of the send loop that walks the batch from its last frame.
send_loop_reversed(w, t, batch, k) ==
    w \o [i \in 1..k |-> [t |-> t, f |-> batch[Len(batch) + 1 - i]]]

\* for frame in ready { if transport.send_bytes(&frame).is_err() { break } }
\* on transport t: the first k frames are accepted; when k < Len(batch)
\* the next send_bytes call fails and the rest of the batch is dropped.
send_loop(w, t, batch, k) ==
    w \o [i \in 1..k |-> [t |-> t, f |-> batch[i]]]

\* The send step (lines 89-94) on transport t: on a send_bytes error the
\* flag is cleared and the for loop is left; the iteration goes on with
\* the refill.
send_step(t, batch, k) ==
    /\ wire' = send_loop(wire, t, batch, k)
    /\ IF k < Len(batch)
       THEN running' = FALSE /\ sendFailed' = TRUE
       ELSE UNCHANGED <<running, sendFailed>>
    /\ ppc' = "mix"

\* Variant of the failure branch that flushes and then goes on with the
\* iteration.
flush_step_continuing(t, batch, k) ==
    /\ wire' = send_loop(wire, t, batch, k)
    /\ ppc' = "mix"
    /\ UNCHANGED <<running, sendFailed>>

\* The failure branch of the rotation (lines 79-85): best-effort flush on
\* the old transport, then the flag is cleared and the loop is left.
flush_step(t, batch, k) ==
    /\ wire' = send_loop(wire, t, batch, k)
    /\ running' = FALSE
    /\ ppc' = "done"
    /\ UNCHANGED sendFailed

\* Variant of the installation that goes on with the transport held
\* before the rotation.
install_transport_keep_old(old, new) == old

\* transport = new_transport (line 77): the transport the worker holds once
\* the factory opened the one of the new path; the old one is dropped.
install_transport(old, new) == new

\* Lines 73-94 of the worker loop, which touch only what the worker owns:
\* ready = delay.drain_ready_at(now, MAX_RELEASE_BATCH); then
\* path_epoch.rotate_if_due(now), and when it rotated the factory opens the
\* transport of the new current path (on success it replaces the old one,
\* on failure the batch is flushed on the old one and the worker leaves);
\* then the send step on the transport now held.  k is the number of
\* send_bytes calls that succeed.
WorkerRelease ==
    /\ ppc = "release"
    /\ \E o \in DelayQueue_drain_ready_at(pending, ready, now_l,
                                           MAX_RELEASE_BATCH) :
          /\ DelayDrained(now_l, o)
          /\ tickBatch' = o.drained
          /\ \E k \in 0..Len(o.drained) :
                /\ rotate_if_due(now_l)
                /\ IF lastRotated'
                   THEN \/ /\ opened' = Append(opened, current_index')
                           /\ transport' = install_transport(
                                               transport, Len(opened) + 1)
                           /\ tickRotated' = TRUE
                           /\ send_step(transport', o.drained, k)
                        \/ /\ flush_step(transport, o.drained, k)
                           /\ tickRotated' = FALSE
                           /\ UNCHANGED <<opened, transport>>
                   ELSE /\ send_step(transport, o.drained, k)
                        /\ tickRotated' = FALSE
                        /\ UNCHANGED <<opened, transport>>
    /\ tickStart' = Len(wire)
    /\ tickOld' = transport
    /\ UNCHANGED <<relayVars,
                   mixVars, min_ns, max_ns, clock, epoch_min_ns, epoch_max_ns,
                   n_paths, gateVars, now_l, error_counts, iter, stopCalled,
                   iterAtStop, engine_lock, offered>>

\* Lines 96-107: the refill, engine.drain_batch(MAX_MIX_BATCH) under the
\* engine mutex and delay.enqueue_at(now, frame) for each frame, then
\* thread::sleep(1 ms), during which time passes.
WorkerRefill ==
    /\ ppc = "mix"
    /\ \E mo \in MixingPool_drain_batch(current_epoch, next_epoch, rotations,
                                         MAX_MIX_BATCH) :
          /\ MixDrained(mo)
          /\ \E eo \in enqueue_all(pending, dq, now_l, mo.drained) :
                pending' = eo[1] /\ dq' = eo[2]
    /\ clock' = clock + 1
    /\ ppc' = "check"
    /\ UNCHANGED <<relayVars,
                   next_id, enqEpoch, min_ns, max_ns, ready, lastPopped,
                   lastCollected, lastReleased, pathVars, gateVars, running,
                   now_l, opened, transport, wire, error_counts, iter,
                   stopCalled, iterAtStop, sendFailed, tickBatch, tickStart,
                   tickOld, tickRotated,
                   engine_lock, offered>>

Worker == WorkerCheck \/ WorkerRelease \/ WorkerRefill

(* ----- the engine shared between the producers and the worker ----- *)
\* The producer contexts that hold a handle on Arc<Mutex<engine>>.
Producers == {"p1", "p2"}

\* Payload lengths the producers call enqueue with: the longest one whose
\* frame is encoded, and the shortest one whose frame is not.
PayloadLens == {MAX_FRAME_SIZE - 4, MAX_FRAME_SIZE - 3}

\* AnonymityProtocolEngine::enqueue on a payload of n bytes: whether
\* encode_frame returns Ok for DataFrame::encode's output, the 4 bytes of
\* the conn_id and the payload; only then the buffer is pooled.
engine_enqueue_pools(n) == ~(4 + n > MAX_FRAME_SIZE)

\* What the pump owns or shares through its own flag.
pumpOwned == <<running, ppc, now_l, opened, transport, wire, error_counts,
               iter, stopCalled, iterAtStop, sendFailed, tickBatch,
               tickStart, tickOld, tickRotated>>

\* A producer takes the engine mutex: engine.lock() returns once no one
\* else holds the guard.
ProducerLock(p) ==
    /\ engine_lock = "free"
    /\ Len(offered) < SharedMaxCalls
    /\ engine_lock' = p
    /\ UNCHANGED <<relayVars, mixVars, delayVars, clock, pathVars, gateVars,
                   pumpOwned, offered>>

\* The producer that holds the guard calls enqueue(payload) and drops the
\* guard: the frame is pooled when it could be encoded, and nothing
\* happens otherwise.
ProducerEnqueue(p) ==
    /\ engine_lock = p
    /\ \E n \in PayloadLens :
          IF engine_enqueue_pools(n)
          THEN /\ MixEnqueued(next_id + 1)
               /\ offered' = Append(offered,
                                    [len |-> n, frame |-> next_id + 1])
          ELSE /\ offered' = Append(offered, [len |-> n, frame |-> NONE])
               /\ UNCHANGED <<current_epoch, next_epoch, next_id, enqEpoch,
                              leftEpoch>>
    /\ engine_lock' = "free"
    /\ UNCHANGED <<relayVars, rotations, lastMixBatch, delayVars, clock,
                   pathVars, gateVars, pumpOwned>>

\* Line 97, protocol.lock(): the worker waits until the mutex is free and
\* holds the guard.
WorkerLock ==
    /\ ppc = "mix"
    /\ engine_lock = "free"
    /\ engine_lock' = "worker"
    /\ ppc' = "drain"
    /\ UNCHANGED <<relayVars, mixVars, delayVars, clock, pathVars, gateVars,
                   running, now_l, opened, transport, wire, error_counts,
                   iter, stopCalled, iterAtStop, sendFailed, tickBatch,
                   tickStart, tickOld, tickRotated, offered>>

\* Variant of the block around drain_batch in which the guard outlives
\* the block.
guard_after_block_kept(holder) == holder

\* Lines 96-102: the guard is bound inside the block that computes mixed
\* and dropped at its end; who holds the mutex afterwards.
guard_after_block(holder) == "free"

\* Line 98, engine.drain_batch(MAX_MIX_BATCH) under the guard; mixed is
\* the batch returned (lastMixBatch).
WorkerDrain ==
    /\ ppc = "drain"
    /\ \E mo \in MixingPool_drain_batch(current_epoch, next_epoch, rotations,
                                         MAX_MIX_BATCH) :
          MixDrained(mo)
    /\ engine_lock' = guard_after_block(engine_lock)
    /\ ppc' = "enqueue"
    /\ UNCHANGED <<relayVars, next_id, enqEpoch, delayVars, clock, pathVars,
                   gateVars, running, now_l, opened, transport, wire,
                   error_counts, iter, stopCalled, iterAtStop, sendFailed,
                   tickBatch, tickStart, tickOld, tickRotated, offered>>

\* Variant of the loop over mixed that leaves out its last frame.
mixed_frames_but_last(mixed) == SubSeq(mixed, 1, Len(mixed) - 1)

\* for frame in mixed: the frames the loop body runs on, in order.
mixed_frames(mixed) == mixed

\* Lines 103-105: delay.enqueue_at(now, frame) for each frame of mixed.
WorkerEnqueueAll ==
    /\ ppc = "enqueue"
    /\ \E eo \in enqueue_all(pending, dq, now_l, mixed_frames(lastMixBatch)) :
          pending' = eo[1] /\ dq' = eo[2]
    /\ ppc' = "sleep"
    /\ UNCHANGED <<relayVars, mixVars, min_ns, max_ns, ready, lastPopped,
                   lastCollected, lastReleased, clock, pathVars, gateVars,
                   running, now_l, opened, transport, wire, error_counts,
                   iter, stopCalled, iterAtStop, sendFailed, tickBatch,
                   tickStart, tickOld, tickRotated, engine_lock, offered>>

\* Line 107: thread::sleep(1 ms), during which time passes.
WorkerSleep ==
    /\ ppc = "sleep"
    /\ clock' = clock + 1
    /\ ppc' = "check"
    /\ UNCHANGED <<relayVars, mixVars, delayVars, pathVars, gateVars,
                   running, now_l, opened, transport, wire, error_counts,
                   iter, stopCalled, iterAtStop, sendFailed, tickBatch,
                   tickStart, tickOld, tickRotated, engine_lock, offered>>

\* The worker thread, statement by statement.
SharedWorker ==
    \/ WorkerCheck
    \/ WorkerRelease
    \/ WorkerLock
    \/ WorkerDrain
    \/ WorkerEnqueueAll
    \/ WorkerSleep

PumpIdle == PumpInit

(* ============================ frame codec ============================== *)

\* Option<T>: None is the empty sequence, Some(x) the sequence <<x>>.
None == <<>>
Some(x) == <<x>>

\* Variant of to_be_bytes that writes the least significant byte first.
u32_to_le_bytes(n) ==
    <<n % 256, (n \div 256) % 256, (n \div 65536) % 256, n \div 16777216>>

\* u32::to_be_bytes.
u32_to_be_bytes(n) ==
    <<n \div 16777216, (n \div 65536) % 256, (n \div 256) % 256, n % 256>>

\* u32::from_be_bytes.
u32_from_be_bytes(b) ==
    ((b[1] * 256 + b[2]) * 256 + b[3]) * 256 + b[4]

\* FrameEncoder::encode_frame into a Vec<u8> that holds writer: whether it
\* returned Ok, and the bytes the writer holds afterwards.
encode_frame(writer, version, frame_type, payload) ==
    LET payload_len == Len(payload)
    IN  IF payload_len > MAX_FRAME_SIZE
        THEN [ok |-> FALSE, bytes |-> writer]
        ELSE [ok |-> TRUE,
              bytes |-> writer \o u32_to_be_bytes(payload_len)
                               \o <<version>> \o <<frame_type>> \o payload]

\* What decode_frame returns: Ok((version, frame_type, payload)) with the
\* position the reader stands at, or Err of some kind.
DecodeOk(version, frame_type, payload, consumed) ==
    [ok |-> TRUE, version |-> version, frame_type |-> frame_type,
     payload |-> payload, consumed |-> consumed, err |-> ""]

DecodeErr(kind) ==
    [ok |-> FALSE, version |-> 0, frame_type |-> 0, payload |-> <<>>,
     consumed |-> 0, err |-> kind]

\* FrameDecoder::decode_frame on a reader that holds the bytes s and
\* stands at their start; read_exact fails when fewer bytes are left than
\* asked for.
decode_frame(s) ==
    IF Len(s) < 4
    THEN DecodeErr("UnexpectedEof")
    ELSE LET payload_len == u32_from_be_bytes(SubSeq(s, 1, 4))
         IN  IF payload_len > MAX_FRAME_SIZE
             THEN DecodeErr("FrameTooLarge")
             ELSE IF Len(s) < 5
             THEN DecodeErr("UnexpectedEof")
             ELSE IF Len(s) < 6
             THEN DecodeErr("UnexpectedEof")
             ELSE IF s[6] \notin {FRAME_TYPE_CONTROL, FRAME_TYPE_DATA}
             THEN DecodeErr("InvalidFrameType")
             ELSE IF Len(s) < 6 + payload_len
             THEN DecodeErr("UnexpectedEof")
             ELSE DecodeOk(s[5], s[6], SubSeq(s, 7, 6 + payload_len),
                           6 + payload_len)

\* The codec before any call.
CodecInit ==
    /\ cx_frame = None
    /\ cx_wire = None
    /\ cx_stream = <<>>
    /\ cx_dec = None

CodecIdle == CodecInit

(* =============== AnonymityProtocolEngine, inbound side ================= *)

\* DataFrame::encode: the connection id, big-endian, then the payload.
DataFrame_encode(frame) == u32_to_be_bytes(frame.conn_id) \o frame.payload

\* DataFrame::decode: None when the bytes are too short for a connection
\* id.
DataFrame_decode(payload) ==
    IF Len(payload) < 4
    THEN None
    ELSE Some([conn_id |-> u32_from_be_bytes(SubSeq(payload, 1, 4)),
               payload |-> SubSeq(payload, 5, Len(payload))])

\* The loop of on_transport_bytes over the inbound buffer buf, with the
\* frames collected so far: stop when fewer than 6 bytes are left or the
\* decoder fails; otherwise drain what the decoder consumed, skip a frame
\* of another version or type, and push the DataFrame when it decodes.
RECURSIVE inbound_loop(_, _)
inbound_loop(buf, frames) ==
    IF Len(buf) < 6
    THEN [buffer |-> buf, frames |-> frames]
    ELSE LET d == decode_frame(buf)
             rest == SubSeq(buf, d.consumed + 1, Len(buf))
             df == DataFrame_decode(d.payload)
         IN  IF ~d.ok
             THEN [buffer |-> buf, frames |-> frames]
             ELSE IF d.version # ANONYMITY_PROTOCOL_VERSION
                     \/ d.frame_type # FRAME_TYPE_DATA
             THEN inbound_loop(rest, frames)
             ELSE IF df # None
             THEN inbound_loop(rest, Append(frames, df[1]))
             ELSE inbound_loop(rest, frames)

\* Variant of the loop that leaves once it has drained a frame of another
\* version or type.
RECURSIVE inbound_loop_stopping(_, _)
inbound_loop_stopping(buf, frames) ==
    IF Len(buf) < 6
    THEN [buffer |-> buf, frames |-> frames]
    ELSE LET d == decode_frame(buf)
             rest == SubSeq(buf, d.consumed + 1, Len(buf))
             df == DataFrame_decode(d.payload)
         IN  IF ~d.ok
             THEN [buffer |-> buf, frames |-> frames]
             ELSE IF d.version # ANONYMITY_PROTOCOL_VERSION
                     \/ d.frame_type # FRAME_TYPE_DATA
             THEN [buffer |-> rest, frames |-> frames]
             ELSE IF df # None
             THEN inbound_loop_stopping(rest, Append(frames, df[1]))
             ELSE inbound_loop_stopping(rest, frames)

\* Variant of on_transport_bytes whose loop ends at a frame of another
\* version or type.
on_transport_bytes_stopping(buf, data) ==
    inbound_loop_stopping(buf \o data, <<>>)

\* Variant of on_transport_bytes that keeps nothing between two calls.
on_transport_bytes_forgetful(buf, data) ==
    [buffer |-> <<>>, frames |-> inbound_loop(buf \o data, <<>>).frames]

\* AnonymityProtocolEngine::on_transport_bytes(data) with inbound_buffer
\* buf: the buffer afterwards and the frames returned.
on_transport_bytes(buf, data) == inbound_loop(buf \o data, <<>>)

\* AnonymityProtocolEngine::new, and a transport that has a stream of
\* encoded frames to deliver.
InboundInit ==
    /\ inbound_buffer = <<>>
    /\ eng_pos = 0
    /\ eng_last = <<>>
    /\ eng_out = <<>>

InboundIdle == InboundInit /\ eng_src = <<>>

(* ========================== ConnectionTable ============================ *)

\* The table as one value: the fields of ConnectionTable.
Self ==
    [connections |-> connections, inflight_opens |-> inflight_opens,
     limits |-> limits, metrics |-> metrics,
     default_window_size |-> default_window_size]

\* Result<(), &str> of a call together with the table it leaves; panic
\* tells that the call did not return but panicked.
Returned(ok, self) == [ok |-> ok, self |-> self, panic |-> FALSE]
Panicked(self) == [ok |-> FALSE, self |-> self, panic |-> TRUE]

\* u32::saturating_add and usize::saturating_sub.
u32_saturating_add(a, b) == IF a + b > U32Max THEN U32Max ELSE a + b
usize_saturating_sub(a, b) == IF a > b THEN a - b ELSE 0

\* a * b on u32 and a + b on usize: the value, or the two outcomes of an
\* overflow (a panic where overflow checks are compiled in, the wrapped
\* value where they are not).
u32_mul(a, b) ==
    IF a * b <= U32Max
    THEN {[v |-> a * b, panic |-> FALSE]}
    ELSE {[v |-> (a * b) % (U32Max + 1), panic |-> FALSE],
          [v |-> 0, panic |-> TRUE]}

usize_add(a, b) ==
    IF a + b <= UsizeMax
    THEN {[v |-> a + b, panic |-> FALSE]}
    ELSE {[v |-> (a + b) % (UsizeMax + 1), panic |-> FALSE],
          [v |-> 0, panic |-> TRUE]}

Min(a, b) == IF a < b THEN a ELSE b

\* ConnectionTable::new(limits).
ConnectionTable_new(lim) ==
    [connections |-> <<>>, inflight_opens |-> 0, limits |-> lim,
     metrics |-> [connections_rejected |-> 0, opens_rejected |-> 0,
                  buffer_limit_breached |-> 0],
     default_window_size |-> DEFAULT_WINDOW_SIZE]

\* ConnectionTable::set_default_window_size.
set_default_window_size(self, size) ==
    [self EXCEPT !.default_window_size = size]

\* ConnectionTable::open_connection.
open_connection(self, conn_id) ==
    IF Cardinality(DOMAIN self.connections) >= self.limits.max_connections
    THEN Returned(FALSE,
                  [self EXCEPT !.metrics.connections_rejected = @ + 1])
    ELSE IF self.inflight_opens >= self.limits.max_inflight_opens
    THEN Returned(FALSE, [self EXCEPT !.metrics.opens_rejected = @ + 1])
    ELSE IF conn_id \notin DOMAIN self.connections
    THEN Returned(TRUE,
                  [self EXCEPT
                     !.connections =
                        (conn_id :> [state |-> "Init",
                                     buffered_bytes |-> 0,
                                     send_window |-> self.default_window_size,
                                     initial_window_size |->
                                        self.default_window_size]) @@ @,
                     !.inflight_opens = @ + 1])
    ELSE Returned(FALSE, self)

\* ConnectionTable::finalize_open.
finalize_open(self, conn_id) ==
    IF conn_id \in DOMAIN self.connections
    THEN IF self.connections[conn_id].state = "Init"
         THEN Returned(TRUE,
                       [self EXCEPT
                          !.connections[conn_id].state = "Open",
                          !.inflight_opens = IF @ > 0 THEN @ - 1 ELSE @])
         ELSE Returned(FALSE, self)
    ELSE Returned(FALSE, self)

\* Variant of consume_send_credits that takes what is there instead of
\* refusing.
consume_send_credits_unchecked(self, conn_id, data_size) ==
    IF conn_id \in DOMAIN self.connections
    THEN Returned(TRUE,
                  [self EXCEPT !.connections[conn_id].send_window =
                                  IF @ > data_size THEN @ - data_size ELSE 0])
    ELSE Returned(FALSE, self)

\* ConnectionTable::consume_send_credits.
consume_send_credits(self, conn_id, data_size) ==
    IF conn_id \in DOMAIN self.connections
    THEN IF self.connections[conn_id].send_window >= data_size
         THEN Returned(TRUE,
                       [self EXCEPT !.connections[conn_id].send_window =
                                       @ - data_size])
         ELSE Returned(FALSE, self)
    ELSE Returned(FALSE, self)

\* Variant of add_send_credits without the cap.
add_send_credits_uncapped(self, conn_id, credits) ==
    IF conn_id \in DOMAIN self.connections
    THEN {Returned(TRUE,
                   [self EXCEPT !.connections[conn_id].send_window =
                                   u32_saturating_add(@, credits)])}
    ELSE {Returned(FALSE, self)}

\* ConnectionTable::add_send_credits: the possible outcomes (more than one
\* when initial_window_size * 2 overflows).
add_send_credits(self, conn_id, credits) ==
    IF conn_id \in DOMAIN self.connections
    THEN LET info == self.connections[conn_id]
         IN  {IF max_window.panic
              THEN Panicked(self)
              ELSE Returned(TRUE,
                            [self EXCEPT
                               !.connections[conn_id].send_window =
                                  Min(u32_saturating_add(@, credits),
                                      max_window.v)]) :
                 max_window \in u32_mul(info.initial_window_size, 2)}
    ELSE {Returned(FALSE, self)}

\* ConnectionTable::should_send_window_update.
should_send_window_update(self, conn_id) ==
    IF conn_id \in DOMAIN self.connections
    THEN self.connections[conn_id].send_window
            < self.connections[conn_id].initial_window_size \div 4
    ELSE FALSE

\* ConnectionTable::calculate_window_update: Option<u32>.
calculate_window_update(self, conn_id) ==
    IF conn_id \in DOMAIN self.connections
    THEN IF should_send_window_update(self, conn_id)
         THEN Some(self.connections[conn_id].initial_window_size
                      - self.connections[conn_id].send_window)
         ELSE None
    ELSE None

\* The for loop of poll_control_frames over the connections in the order
\* the HashMap yields them, from position i on.  Returns the possible
\* outcomes: the table, the frames collected, and whether the loop
\* panicked (the frames are lost then, the windows already set stay).
RECURSIVE poll_loop(_, _, _, _)
poll_loop(self, order, i, frames) ==
    IF i > Len(order)
    THEN {[self |-> self, frames |-> frames, panic |-> FALSE]}
    ELSE LET conn_id == order[i]
             info == self.connections[conn_id]
             credits == calculate_window_update(self, conn_id)
         IN  IF credits = None
             THEN poll_loop(self, order, i + 1, frames)
             ELSE UNION {
                    IF m.panic
                    THEN {[self |-> self, frames |-> <<>>, panic |-> TRUE]}
                    ELSE poll_loop(
                           [self EXCEPT
                              !.connections[conn_id].send_window =
                                 Min(u32_saturating_add(@, credits[1]), m.v)],
                           order, i + 1,
                           Append(frames, [conn_id |-> conn_id,
                                           credits |-> credits[1]])) :
                    m \in u32_mul(info.initial_window_size, 2)}

\* The orders in which a HashMap with the keys S can be walked.
IterationOrders(S) == {q \in [1..Cardinality(S) -> S] : Range(q) = S}

\* ConnectionTable::poll_control_frames.
poll_control_frames(self) ==
    UNION {poll_loop(self, order, 1, <<>>) :
             order \in IterationOrders(DOMAIN self.connections)}

\* Variant of close_connection that closes from every state.
close_connection_any_state(self, conn_id) ==
    IF conn_id \in DOMAIN self.connections
    THEN Returned(TRUE,
                  [self EXCEPT !.connections[conn_id].state = "Closing"])
    ELSE Returned(FALSE, self)

\* ConnectionTable::close_connection.
close_connection(self, conn_id) ==
    IF conn_id \in DOMAIN self.connections
    THEN IF self.connections[conn_id].state = "Open"
         THEN Returned(TRUE,
                       [self EXCEPT !.connections[conn_id].state = "Closing"])
         ELSE Returned(FALSE, self)
    ELSE Returned(FALSE, self)

\* ConnectionTable::finalize_close: HashMap::remove.
finalize_close(self, conn_id) ==
    [self EXCEPT !.connections =
                    [c \in DOMAIN @ \ {conn_id} |-> @[c]]]

\* Variant of add_buffered_bytes that does not look at the limit.
add_buffered_bytes_unchecked(self, conn_id, bytes) ==
    IF conn_id \in DOMAIN self.connections
    THEN {IF sum.panic
          THEN Panicked(self)
          ELSE Returned(TRUE,
                        [self EXCEPT
                           !.connections[conn_id].buffered_bytes = sum.v]) :
             sum \in usize_add(self.connections[conn_id].buffered_bytes,
                               bytes)}
    ELSE {Returned(FALSE, self)}

\* ConnectionTable::add_buffered_bytes: buffered_bytes + bytes is computed
\* for the test and again for the assignment, with the same outcome.
add_buffered_bytes(self, conn_id, bytes) ==
    IF conn_id \in DOMAIN self.connections
    THEN {IF sum.panic
          THEN Panicked(self)
          ELSE IF sum.v > self.limits.max_buffered_bytes
          THEN Returned(FALSE,
                        [self EXCEPT !.metrics.buffer_limit_breached = @ + 1])
          ELSE Returned(TRUE,
                        [self EXCEPT
                           !.connections[conn_id].buffered_bytes = sum.v]) :
             sum \in usize_add(self.connections[conn_id].buffered_bytes,
                               bytes)}
    ELSE {Returned(FALSE, self)}

\* ConnectionTable::remove_buffered_bytes.
remove_buffered_bytes(self, conn_id, bytes) ==
    IF conn_id \in DOMAIN self.connections
    THEN [self EXCEPT !.connections[conn_id].buffered_bytes =
                         usize_saturating_sub(@, bytes)]
    ELSE self

\* The table after ConnectionTable::new(TableLimits).
TableInit ==
    LET new == ConnectionTable_new(TableLimits)
    IN  /\ connections = new.connections
        /\ inflight_opens = new.inflight_opens
        /\ limits = new.limits
        /\ metrics = new.metrics
        /\ default_window_size = new.default_window_size
        /\ tbl_panicked = FALSE

\* The table becomes self.
SetSelf(self) ==
    /\ connections' = self.connections
    /\ inflight_opens' = self.inflight_opens
    /\ limits' = self.limits
    /\ metrics' = self.metrics
    /\ default_window_size' = self.default_window_size

TableIdle == TableInit

(* ================= ProtocolEngine and BindingPump ===================== *)

\* ProtocolEngine::new and BindingPump::new: no outbound queue, no
\* transport, nothing queued or written yet.
LegacyInit ==
    /\ outbound_frames = <<>>
    /\ transports = {}
    /\ lg_queued = <<>>
    /\ lg_wire = <<>>

\* usize as u32.
as_u32(n) == n % (U32Max + 1)

\* ConnectionTable::can_send_data(conn_id, data_size).
can_send_data(self, conn_id, data_size) ==
    IF conn_id \in DOMAIN self.connections
    THEN /\ self.connections[conn_id].state = "Open"
         /\ self.connections[conn_id].send_window >= data_size
    ELSE FALSE

\* outbound_frames.entry(conn_id).or_insert_with(Vec::new).push(buffer).
push_outbound(out, conn_id, buffer) ==
    IF conn_id \in DOMAIN out
    THEN [out EXCEPT ![conn_id] = Append(@, buffer)]
    ELSE (conn_id :> <<buffer>>) @@ out

\* ProtocolEngine::queue_control_message for a message that encodes to n
\* bytes; buffer stands for the encoded frame.
queue_control_message(out, conn_id, n, buffer) ==
    IF as_u32(n) > MAX_FRAME_SIZE
    THEN out
    ELSE push_outbound(out, conn_id, buffer)

\* ProtocolEngine::queue_data_frame for data of n bytes: whether it
\* returned Ok, the table and the outbound queues it leaves.  The payload
\* handed to encode_frame is the conn_id and the data, 4 + n bytes.
queue_data_frame(self, out, conn_id, n, buffer) ==
    IF ~can_send_data(self, conn_id, as_u32(n))
    THEN [ok |-> FALSE, self |-> self, out |-> out]
    ELSE IF as_u32(4 + n) > MAX_FRAME_SIZE
    THEN [ok |-> FALSE, self |-> self, out |-> out]
    ELSE LET c == consume_send_credits(self, conn_id, as_u32(n))
         IN  IF c.ok
             THEN [ok |-> TRUE, self |-> c.self,
                   out |-> push_outbound(out, conn_id, buffer)]
             ELSE [ok |-> FALSE, self |-> c.self, out |-> out]

\* ProtocolEngine::next_outbound_frame: outbound_frames.get_mut(..)?.pop(),
\* and Vec::pop takes the last element.
next_outbound_frame(out, conn_id) ==
    IF conn_id \notin DOMAIN out
    THEN [frame |-> None, out |-> out]
    ELSE IF out[conn_id] = <<>>
    THEN [frame |-> None, out |-> out]
    ELSE [frame |-> Some(out[conn_id][Len(out[conn_id])]),
          out |-> [out EXCEPT ![conn_id] = Front(@)]]

\* while let Some(frame) = engine.next_outbound_frame(conn_id)
\* { frames.push(frame) }: the queues and the frames collected.
RECURSIVE extract_frames(_, _, _)
extract_frames(out, conn_id, frames) ==
    LET r == next_outbound_frame(out, conn_id)
    IN  IF r.frame = None
        THEN [out |-> out, frames |-> frames]
        ELSE extract_frames(r.out, conn_id, Append(frames, r.frame[1]))

LegacyIdle == LegacyInit

(* ========================= observability core ========================= *)

\* The statics at program start: HEALTH_STATE holds HealthState::OK as u8
\* and every counter is zero.
ObsInit ==
    /\ health_state = 0
    /\ obs_health = "OK"
    /\ bytes_sent_coarse = [i \in 0..(BYTE_BUCKETS - 1) |-> 0]
    /\ bytes_received_coarse = [i \in 0..(BYTE_BUCKETS - 1) |-> 0]
    /\ obs_lens = <<>>

\* HealthState as u8, by declaration order.
HealthStates == {"OK", "DEGRADED", "FAULTED", "_Private"}
health_as_u8(state) ==
    CASE state = "OK" -> 0
      [] state = "DEGRADED" -> 1
      [] state = "FAULTED" -> 2
      [] OTHER -> 3

\* get_health: the HealthState read from the byte x in HEALTH_STATE.
get_health(x) ==
    IF x = health_as_u8("OK") THEN "OK"
    ELSE IF x = health_as_u8("DEGRADED") THEN "DEGRADED"
    ELSE IF x = health_as_u8("FAULTED") THEN "FAULTED"
    ELSE "FAULTED"

\* The while loop of coarse_bucket_index: v >>= 1 and idx += 1 as long as
\* v > 1 and idx + 1 < BYTE_BUCKETS.
RECURSIVE bucket_loop(_, _)
bucket_loop(v, idx) ==
    IF v > 1 /\ idx + 1 < BYTE_BUCKETS
    THEN bucket_loop(v \div 2, idx + 1)
    ELSE idx

\* coarse_bucket_index(byte_len).
coarse_bucket_index(byte_len) ==
    IF byte_len = 0 THEN 0 ELSE bucket_loop(byte_len, 0)

\* set_health(state).
ObsSetHealth(state) ==
    /\ health_state' = health_as_u8(state)
    /\ UNCHANGED <<mixVars, delayVars, clock, pathVars, gateVars, pumpVars,
                   codecVars, inboundVars, tableVars, legacyVars, obs_health,
                   bytes_sent_coarse, bytes_received_coarse, obs_lens>>

\* get_health(), whose result is kept in obs_health.
ObsGetHealth ==
    /\ obs_health' = get_health(health_state)
    /\ UNCHANGED <<mixVars, delayVars, clock, pathVars, gateVars, pumpVars,
                   codecVars, inboundVars, tableVars, legacyVars,
                   health_state, bytes_sent_coarse, bytes_received_coarse,
                   obs_lens>>

\* record_error(class).
ObsRecordError(class) ==
    /\ error_counts[class] < ObsMaxRecords
    /\ error_counts' = record_error(error_counts, class)
    /\ UNCHANGED <<mixVars, delayVars, clock, pathVars, gateVars, running,
                   ppc, now_l, opened, transport, wire, iter, stopCalled,
                   iterAtStop, sendFailed, tickBatch, tickStart, tickOld,
                   tickRotated, engine_lock, offered, codecVars, inboundVars,
                   tableVars, legacyVars, obsVars>>

\* record_bytes_sent_coarse(byte_len).
ObsRecordBytesSent(byte_len) ==
    /\ Len(obs_lens) < ObsMaxRecords
    /\ bytes_sent_coarse' =
          [bytes_sent_coarse EXCEPT ![coarse_bucket_index(byte_len)] = @ + 1]
    /\ obs_lens' = Append(obs_lens, byte_len)
    /\ UNCHANGED <<mixVars, delayVars, clock, pathVars, gateVars, pumpVars,
                   codecVars, inboundVars, tableVars, legacyVars,
                   health_state, obs_health, bytes_received_coarse>>

\* record_bytes_received_coarse(byte_len).
ObsRecordBytesReceived(byte_len) ==
    /\ Len(obs_lens) < ObsMaxRecords
    /\ bytes_received_coarse' =
          [bytes_received_coarse EXCEPT
             ![coarse_bucket_index(byte_len)] = @ + 1]
    /\ obs_lens' = Append(obs_lens, byte_len)
    /\ UNCHANGED <<mixVars, delayVars, clock, pathVars, gateVars, pumpVars,
                   codecVars, inboundVars, tableVars, legacyVars,
                   health_state, obs_health, bytes_sent_coarse>>

ObsIdle == ObsInit

RelayIdle ==
    CodecIdle /\ InboundIdle /\ TableIdle /\ LegacyIdle /\ ObsIdle

(* ----------------- specification: the mixing pool alone ---------------- *)
MixEnqueue ==
    /\ next_id < MixMaxFrames
    /\ MixEnqueued(next_id + 1)
    /\ UNCHANGED <<relayVars,
                   rotations, lastMixBatch, delayVars, clock, pathVars, gateVars,
                   pumpVars>>

MixDrain ==
    \E max_frames \in 0..MaxBatch :
        \E o \in MixingPool_drain_batch(current_epoch, next_epoch,
                                        rotations, max_frames) :
            /\ MixDrained(o)
            /\ UNCHANGED <<relayVars,
                           next_id, enqEpoch, delayVars, clock, pathVars,
                           gateVars, pumpVars>>

\* The parts of the state a specification does not drive stay as built.
DelayIdle ==
    /\ min_ns = 1 /\ max_ns = 1 /\ pending = {} /\ ready = <<>>
    /\ dq = <<>> /\ lastPopped = <<>> /\ lastCollected = <<>>
    /\ lastReleased = <<>>

PathIdle ==
    /\ epoch_min_ns = 1 /\ epoch_max_ns = 1 /\ n_paths = 1
    /\ current_index = 0 /\ next_rotation = 1 /\ epoch_nonce = 0
    /\ pathTrail = <<0>> /\ lastRotated = FALSE

InitMix ==
    /\ MixInit /\ DelayIdle /\ PathIdle /\ GateIdle /\ PumpIdle /\ clock = 0
    /\ RelayIdle
NextMix == MixEnqueue \/ MixDrain
SpecMix == InitMix /\ [][NextMix]_vars

(* ----------------- specification: the delay queue alone ---------------- *)
\* The callers pass the current instant of the monotonic clock.
DelayEnqueue ==
    /\ next_id < DelayMaxFrames
    /\ \E r_delay \in 0..RngMax, r_nonce \in 0..RngMax :
          DelayEnqueued(clock, next_id + 1, r_delay, r_nonce)
    /\ next_id' = next_id + 1
    /\ UNCHANGED <<relayVars,
                   current_epoch, next_epoch, rotations, enqEpoch, leftEpoch,
                   lastMixBatch, min_ns, max_ns, ready, lastPopped,
                   lastCollected, lastReleased, clock, pathVars, gateVars,
                   pumpVars>>

DelayDrain ==
    /\ \E max_frames \in 0..MaxBatch :
          \E o \in DelayQueue_drain_ready_at(pending, ready, clock,
                                             max_frames) :
              DelayDrained(clock, o)
    /\ UNCHANGED <<relayVars,
                   mixVars, min_ns, max_ns, clock, pathVars, gateVars,
                   pumpVars>>

ClockTick ==
    /\ clock < MaxTime
    /\ clock' = clock + 1
    /\ UNCHANGED <<relayVars,
                   mixVars, delayVars, pathVars, gateVars, pumpVars>>

InitDelay ==
    /\ MixInit /\ DelayInit /\ PathIdle /\ GateIdle /\ PumpIdle /\ clock = 0
    /\ RelayIdle
NextDelay == DelayEnqueue \/ DelayDrain \/ ClockTick
SpecDelay == InitDelay /\ [][NextDelay]_vars

\* The delay queue under a UniformDelay of exactly one nanosecond, with
\* room for a frame that waits in the ready buffer while another is
\* collected behind it.
FifoEnqueue ==
    /\ next_id < FifoMaxFrames
    /\ \E r_delay \in 0..RngMax, r_nonce \in 0..RngMax :
          DelayEnqueued(clock, next_id + 1, r_delay, r_nonce)
    /\ next_id' = next_id + 1
    /\ UNCHANGED <<relayVars,
                   current_epoch, next_epoch, rotations, enqEpoch, leftEpoch,
                   lastMixBatch, min_ns, max_ns, ready, lastPopped,
                   lastCollected, lastReleased, clock, pathVars, gateVars,
                   pumpVars>>

InitFifo == InitDelay /\ min_ns = 1 /\ max_ns = 1
NextFifo == FifoEnqueue \/ DelayDrain \/ ClockTick
SpecFifo == InitFifo /\ [][NextFifo]_vars

(* ------------------ specification: the rotator alone ------------------- *)
PathRotate ==
    /\ rotate_if_due(clock)
    /\ UNCHANGED <<relayVars,
                   mixVars, delayVars, clock, epoch_min_ns, epoch_max_ns,
                   n_paths, gateVars, pumpVars>>

InitPath ==
    /\ MixInit /\ DelayIdle /\ GateIdle /\ PumpIdle /\ RelayIdle
    /\ clock = 0 /\ PathInit(clock)
NextPath == PathRotate \/ ClockTick
SpecPath == InitPath /\ [][NextPath]_vars

(* --------------- specification: the regression harness ----------------- *)
InitGate ==
    /\ MixInit /\ GateInit /\ PathIdle /\ PumpIdle /\ clock = 0
    /\ RelayIdle
NextGate == GateTick
SpecGate == InitGate /\ [][NextGate]_vars
\* The for loop runs on by itself: every tick that can be taken is taken.
FairSpecGate == SpecGate /\ WF_vars(GateTick)

(* ------------------- specification: the binding pump ------------------- *)
\* The pump is built over two paths, UniformDelay::new(1, 2) and
\* UniformEpochDuration::new(1, 2), with nothing enqueued yet.
InitPump ==
    /\ MixInit /\ DelayInit /\ GateIdle /\ PumpInit /\ RelayIdle
    /\ clock = 0 /\ PathInit(clock)
    /\ n_paths = 2
    /\ min_ns = 1 /\ max_ns = 2
    /\ epoch_min_ns = 1 /\ epoch_max_ns = 2
NextPump == EngineEnqueue \/ PumpStart \/ PumpStop \/ Worker
SpecPump == InitPump /\ [][NextPump]_vars
\* The worker is a thread of its own: a step it can take is taken.
FairSpecPump == SpecPump /\ WF_vars(Worker)

(* ------- specification: producers and the pump share the engine -------- *)
\* The pump of InitPump, which nobody stops from outside, with its worker
\* taken statement by statement and the producers calling enqueue under the
\* engine mutex.
InitShared == InitPump
NextShared ==
    \/ \E p \in Producers : ProducerLock(p)
    \/ \E p \in Producers : ProducerEnqueue(p)
    \/ PumpStart
    \/ SharedWorker
SpecShared == InitShared /\ [][NextShared]_vars

(* -------------------- specification: the frame codec ------------------- *)
\* What the calls are tried with: versions, payloads of up to MaxPayloadLen
\* bytes and the payload DE AD BE EF, and bytes that follow a frame in the
\* stream.
CodecVersions == {0, 2, 255}
CodecPayloads ==
    UNION {[1..n -> {5, 222}] : n \in 0..MaxPayloadLen}
        \cup {<<222, 173, 190, 239>>}
CodecTrailing == {<<>>, <<9>>}
\* Streams handed to the decoder: a length field (0, 1, 2, 1 MiB, 1 MiB + 1,
\* 2^31 - 1), a version, a type byte, up to MaxPayloadLen + 1 more bytes,
\* and every prefix of that.
CodecLengthFields ==
    {<<0, 0, 0, 0>>, <<0, 0, 0, 1>>, <<0, 0, 0, 2>>, <<0, 16, 0, 0>>,
     <<0, 16, 0, 1>>, <<127, 255, 255, 255>>}
CodecStreams ==
    {SubSeq(l \o <<2, t>> \o b, 1, Min(k, 6 + Len(b))) :
        l \in CodecLengthFields, t \in 0..3,
        b \in UNION {[1..n -> {5}] : n \in 0..(MaxPayloadLen + 1)},
        k \in 0..(MaxPayloadLen + 7)}

\* encode_frame into an empty Vec<u8>.
CodecEncode ==
    /\ \E version \in CodecVersions,
          frame_type \in {FRAME_TYPE_CONTROL, FRAME_TYPE_DATA},
          payload \in CodecPayloads :
          /\ cx_frame' = Some([version |-> version, frame_type |-> frame_type,
                               payload |-> payload])
          /\ cx_wire' = Some(encode_frame(<<>>, version, frame_type, payload))
    /\ cx_stream' = <<>>
    /\ cx_dec' = None
    /\ UNCHANGED <<mixVars, delayVars, clock, pathVars, gateVars, pumpVars,
                   inboundVars, tableVars,
                   legacyVars, obsVars>>

\* decode_frame on a reader that holds the bytes just written, possibly
\* followed by more of the stream.
CodecDecodeWritten ==
    /\ cx_wire # None
    /\ cx_wire[1].ok
    /\ cx_dec = None
    /\ \E more \in CodecTrailing :
          /\ cx_stream' = cx_wire[1].bytes \o more
          /\ cx_dec' = Some(decode_frame(cx_wire[1].bytes \o more))
    /\ UNCHANGED <<mixVars, delayVars, clock, pathVars, gateVars, pumpVars,
                   cx_frame, cx_wire, inboundVars, tableVars,
                   legacyVars, obsVars>>

\* decode_frame on a reader that holds any stream.
CodecDecode ==
    /\ \E s \in CodecStreams :
          /\ cx_stream' = s
          /\ cx_dec' = Some(decode_frame(s))
    /\ cx_frame' = None
    /\ cx_wire' = None
    /\ UNCHANGED <<mixVars, delayVars, clock, pathVars, gateVars, pumpVars,
                   inboundVars, tableVars,
                   legacyVars, obsVars>>

InitCodec ==
    /\ MixInit /\ DelayIdle /\ PathIdle /\ GateIdle /\ PumpIdle /\ clock = 0
    /\ CodecInit /\ InboundIdle /\ TableIdle
    /\ LegacyIdle /\ ObsIdle
NextCodec == CodecEncode \/ CodecDecodeWritten \/ CodecDecode
SpecCodec == InitCodec /\ [][NextCodec]_vars

(* ------------- specification: the engine's inbound side ---------------- *)
\* The frames a peer encodes: Data frames of the engine's version with a
\* payload too short for a DataFrame, just long enough, and longer; a Data
\* frame of version 1; a Control frame.
InboundFrames ==
    [version : {ANONYMITY_PROTOCOL_VERSION},
     frame_type : {FRAME_TYPE_DATA},
     payload : {<<0, 0, 0>>, <<0, 0, 0, 7>>, <<0, 0, 1, 7, 9>>}]
      \cup {[version |-> 1, frame_type |-> FRAME_TYPE_DATA,
             payload |-> <<0, 0, 0, 7, 5>>],
            [version |-> ANONYMITY_PROTOCOL_VERSION,
             frame_type |-> FRAME_TYPE_CONTROL,
             payload |-> <<0, 0, 0, 7, 5>>]}

\* The bytes of the frames src[1..k], one encode_frame after the other.
RECURSIVE EncodedStream(_, _)
EncodedStream(src, k) ==
    IF k = 0
    THEN <<>>
    ELSE encode_frame(EncodedStream(src, k - 1), src[k].version,
                      src[k].frame_type, src[k].payload).bytes

\* The transport hands the engine the next n bytes of the stream.
InboundBytes ==
    LET stream == EncodedStream(eng_src, Len(eng_src))
    IN  \E n \in 1..(Len(stream) - eng_pos) :
           LET data == SubSeq(stream, eng_pos + 1, eng_pos + n)
               r == on_transport_bytes(inbound_buffer, data)
           IN  /\ inbound_buffer' = r.buffer
               /\ eng_last' = r.frames
               /\ eng_out' = eng_out \o r.frames
               /\ eng_pos' = eng_pos + n
               /\ UNCHANGED <<mixVars, delayVars, clock, pathVars, gateVars,
                              pumpVars, codecVars, eng_src, tableVars,
                              legacyVars, obsVars>>

InitInbound ==
    /\ MixInit /\ DelayIdle /\ PathIdle /\ GateIdle /\ PumpIdle /\ clock = 0
    /\ CodecIdle /\ InboundInit /\ TableIdle
    /\ LegacyIdle /\ ObsIdle
    /\ eng_src \in UNION {[1..n -> InboundFrames] : n \in 1..MaxInboundFrames}
NextInbound == InboundBytes
SpecInbound == InitInbound /\ [][NextInbound]_vars

(* ----- specification: a peer that does not keep to the protocol ----- *)
\* What such a peer puts on the wire, each frame with the value of its
\* length field: two Data frames as the encoder writes them, a frame with
\* an unknown type byte, and a header whose length field is above
\* MAX_FRAME_SIZE.
PeerFrames ==
    {[version |-> ANONYMITY_PROTOCOL_VERSION, frame_type |-> FRAME_TYPE_DATA,
      payload |-> <<0, 0, 0, 7>>, length |-> 4],
     [version |-> ANONYMITY_PROTOCOL_VERSION, frame_type |-> FRAME_TYPE_DATA,
      payload |-> <<0, 0, 1, 7, 9>>, length |-> 5],
     [version |-> ANONYMITY_PROTOCOL_VERSION, frame_type |-> 3,
      payload |-> <<0, 0, 0, 7>>, length |-> 4],
     [version |-> ANONYMITY_PROTOCOL_VERSION, frame_type |-> FRAME_TYPE_DATA,
      payload |-> <<>>, length |-> MAX_FRAME_SIZE + 1]}

\* The bytes of the frames src[1..k] as the peer wrote them:
\* length(4) || version(1) || type(1) || payload.
RECURSIVE PeerStream(_, _)
PeerStream(src, k) ==
    IF k = 0
    THEN <<>>
    ELSE PeerStream(src, k - 1) \o u32_to_be_bytes(src[k].length)
             \o <<src[k].version, src[k].frame_type>> \o src[k].payload

\* The transport hands the engine the next n bytes of the peer's stream.
PeerBytes ==
    LET stream == PeerStream(eng_src, Len(eng_src))
    IN  \E n \in 1..(Len(stream) - eng_pos) :
           LET data == SubSeq(stream, eng_pos + 1, eng_pos + n)
               r == on_transport_bytes(inbound_buffer, data)
           IN  /\ inbound_buffer' = r.buffer
               /\ eng_last' = r.frames
               /\ eng_out' = eng_out \o r.frames
               /\ eng_pos' = eng_pos + n
               /\ UNCHANGED <<mixVars, delayVars, clock, pathVars, gateVars,
                              pumpVars, codecVars, eng_src, tableVars,
                              legacyVars, obsVars>>

InitPeer ==
    /\ MixInit /\ DelayIdle /\ PathIdle /\ GateIdle /\ PumpIdle /\ clock = 0
    /\ CodecIdle /\ InboundInit /\ TableIdle
    /\ LegacyIdle /\ ObsIdle
    /\ eng_src \in UNION {[1..n -> PeerFrames] : n \in 1..MaxInboundFrames}
NextPeer == PeerBytes
SpecPeer == InitPeer /\ [][NextPeer]_vars

(* ----------------- specification: the observability core ------------- *)
\* 2^n.
RECURSIVE Pow2(_)
Pow2(n) == IF n = 0 THEN 1 ELSE 2 * Pow2(n - 1)

\* Byte lengths recorded: zero, the lengths around the first boundaries,
\* and the lengths around the last ones.
ObsByteLens ==
    {0, 1, 2, 3, 4, Pow2(19) - 1, Pow2(19), Pow2(20) - 1, Pow2(20),
     Pow2(21)}

InitObs ==
    /\ MixInit /\ DelayIdle /\ PathIdle /\ GateIdle /\ PumpIdle /\ clock = 0
    /\ CodecIdle /\ InboundIdle /\ TableIdle /\ LegacyIdle /\ ObsInit
NextObs ==
    \/ \E state \in HealthStates : ObsSetHealth(state)
    \/ ObsGetHealth
    \/ \E class \in ErrorClass : ObsRecordError(class)
    \/ \E byte_len \in ObsByteLens : ObsRecordBytesSent(byte_len)
    \/ \E byte_len \in ObsByteLens : ObsRecordBytesReceived(byte_len)
SpecObs == InitObs /\ [][NextObs]_vars

(* ------------------ specification: the connection table ---------------- *)
\* What the calls are tried with: two connection ids, the default window
\* and one whose double does not fit a u32, a send of one default window,
\* the largest credit, and one byte or the largest count of bytes.
ConnIds == {1, 2}
TableWindowSizes == {DEFAULT_WINDOW_SIZE, U32Max \div 2 + 1}
TableDataSizes == {DEFAULT_WINDOW_SIZE}
TableCredits == {U32Max}
TableBytes == {1, UsizeMax}

\* The rejections counted so far.
RejectsOf(self) ==
    self.metrics.connections_rejected + self.metrics.opens_rejected
        + self.metrics.buffer_limit_breached

\* A call ends with the outcome r: the table it leaves, or a panic.
TableStep(r) ==
    /\ ~tbl_panicked
    /\ RejectsOf(r.self) <= MaxRejects
    /\ SetSelf(r.self)
    /\ tbl_panicked' = r.panic
    /\ UNCHANGED <<mixVars, delayVars, clock, pathVars, gateVars, pumpVars,
                   codecVars, inboundVars, legacyVars,
                   obsVars>>

TableSetDefaultWindowSize(size) ==
    TableStep(Returned(TRUE, set_default_window_size(Self, size)))

TableOpen(conn_id) == TableStep(open_connection(Self, conn_id))

TableFinalizeOpen(conn_id) == TableStep(finalize_open(Self, conn_id))

TableConsume(conn_id, data_size) ==
    TableStep(consume_send_credits(Self, conn_id, data_size))

TableAddCredits(conn_id, credits) ==
    \E r \in add_send_credits(Self, conn_id, credits) : TableStep(r)

TablePoll == \E r \in poll_control_frames(Self) : TableStep(r)

TableClose(conn_id) == TableStep(close_connection(Self, conn_id))

TableFinalizeClose(conn_id) ==
    TableStep(Returned(TRUE, finalize_close(Self, conn_id)))

TableAddBuffered(conn_id, bytes) ==
    \E r \in add_buffered_bytes(Self, conn_id, bytes) : TableStep(r)

TableRemoveBuffered(conn_id, bytes) ==
    TableStep(Returned(TRUE, remove_buffered_bytes(Self, conn_id, bytes)))

InitTable ==
    /\ MixInit /\ DelayIdle /\ PathIdle /\ GateIdle /\ PumpIdle /\ clock = 0
    /\ CodecIdle /\ InboundIdle /\ TableInit
    /\ LegacyIdle /\ ObsIdle
NextTable ==
    \/ \E size \in TableWindowSizes : TableSetDefaultWindowSize(size)
    \/ \E conn_id \in ConnIds : TableOpen(conn_id)
    \/ \E conn_id \in ConnIds : TableFinalizeOpen(conn_id)
    \/ \E conn_id \in ConnIds, data_size \in TableDataSizes :
          TableConsume(conn_id, data_size)
    \/ \E conn_id \in ConnIds, credits \in TableCredits :
          TableAddCredits(conn_id, credits)
    \/ TablePoll
    \/ \E conn_id \in ConnIds : TableClose(conn_id)
    \/ \E conn_id \in ConnIds : TableFinalizeClose(conn_id)
    \/ \E conn_id \in ConnIds, bytes \in TableBytes :
          TableAddBuffered(conn_id, bytes)
    \/ \E conn_id \in ConnIds, bytes \in TableBytes :
          TableRemoveBuffered(conn_id, bytes)
SpecTable == InitTable /\ [][NextTable]_vars

(* ------- specification: the per-connection engine and its pump -------- *)
\* The frames queued so far, over all connections.
QueuedSoFar ==
    Cardinality({<<c, i>> \in ConnIds \X (1..LegacyMaxFrames) :
                    i <= Len(lg_queued[c])})

\* A caller queues a data frame of n bytes for conn_id.
EngineQueueData(conn_id, n) ==
    LET buffer == QueuedSoFar + 1
        r == queue_data_frame(Self, outbound_frames, conn_id, n, buffer)
    IN  /\ ~tbl_panicked
        /\ QueuedSoFar < LegacyMaxFrames
        /\ SetSelf(r.self)
        /\ outbound_frames' = r.out
        /\ lg_queued' = IF r.ok
                        THEN [lg_queued EXCEPT ![conn_id] = Append(@, buffer)]
                        ELSE lg_queued
        /\ UNCHANGED <<mixVars, delayVars, clock, pathVars, gateVars,
                       pumpVars, codecVars, inboundVars, tbl_panicked,
                       transports, lg_wire, obsVars>>

\* A caller queues a control message of n encoded bytes for conn_id.
EngineQueueControl(conn_id, n) ==
    LET buffer == QueuedSoFar + 1
        out == queue_control_message(outbound_frames, conn_id, n, buffer)
    IN  /\ QueuedSoFar < LegacyMaxFrames
        /\ outbound_frames' = out
        /\ lg_queued' = IF out # outbound_frames
                        THEN [lg_queued EXCEPT ![conn_id] = Append(@, buffer)]
                        ELSE lg_queued
        /\ UNCHANGED <<mixVars, delayVars, clock, pathVars, gateVars,
                       pumpVars, codecVars, inboundVars, tableVars,
                       transports, lg_wire, obsVars>>

\* BindingPump worker, the body of `for conn_id in conn_ids`: the frames
\* of conn_id are extracted under the engine mutex and sent in the order
\* extracted; k send_bytes calls succeed, and when the next one fails the
\* error is recorded, the transport removed and the rest dropped.
LegacyPumpConn(conn_id) ==
    /\ conn_id \in transports
    /\ LET r == extract_frames(outbound_frames, conn_id, <<>>)
       IN  /\ r.frames # <<>>
           /\ outbound_frames' = r.out
           /\ \E k \in 0..Len(r.frames) :
                 /\ lg_wire' = [lg_wire EXCEPT
                                  ![conn_id] = @ \o SubSeq(r.frames, 1, k)]
                 /\ IF k < Len(r.frames)
                    THEN /\ error_counts' =
                               record_error(error_counts, "TRANSPORT_IO")
                         /\ transports' = transports \ {conn_id}
                    ELSE UNCHANGED <<error_counts, transports>>
    /\ UNCHANGED <<mixVars, delayVars, clock, pathVars, gateVars, running,
                   ppc, now_l, opened, transport, wire, iter, stopCalled,
                   iterAtStop, sendFailed, tickBatch, tickStart, tickOld,
                   tickRotated, engine_lock, offered, codecVars, inboundVars,
                   tableVars, lg_queued, obsVars>>

\* Data and control message lengths: one byte, a whole default window, and
\* a slice one byte longer than u32 can count.
EngineDataLens == {1, DEFAULT_WINDOW_SIZE, U32Max + 1}
EngineControlLens == {1}

\* ProtocolEngine::new(TableLimits) and a started BindingPump that was
\* given a transport for each connection id.
InitEngine ==
    /\ MixInit /\ DelayIdle /\ PathIdle /\ GateIdle /\ PumpIdle /\ clock = 0
    /\ CodecIdle /\ InboundIdle /\ TableInit /\ ObsIdle
    /\ outbound_frames = <<>>
    /\ transports = ConnIds
    /\ lg_queued = [c \in ConnIds |-> <<>>]
    /\ lg_wire = [c \in ConnIds |-> <<>>]
NextEngine ==
    \/ \E conn_id \in ConnIds : TableOpen(conn_id)
    \/ \E conn_id \in ConnIds : TableFinalizeOpen(conn_id)
    \/ \E conn_id \in ConnIds : TableClose(conn_id)
    \/ \E conn_id \in ConnIds, n \in EngineDataLens :
          EngineQueueData(conn_id, n)
    \/ \E conn_id \in ConnIds, n \in EngineControlLens :
          EngineQueueControl(conn_id, n)
    \/ \E conn_id \in ConnIds : LegacyPumpConn(conn_id)
SpecEngine == InitEngine /\ [][NextEngine]_vars


(* C1: a frame is returned by drain_batch only after at least one epoch   *)
(* swap has happened since it was enqueued, and a frame that is still in   *)
(* next_epoch has never been returned.                                     *)
C1_EpochContainment ==
    /\ \A f \in 1..next_id :
          leftEpoch[f] # NONE => leftEpoch[f] > enqEpoch[f]
    /\ \A f \in Range(next_epoch) :
          leftEpoch[f] = NONE /\ f \notin Range(lastMixBatch)

\* A drain returned a frame while a later frame waits in next_epoch.
C1_Witness ==
    /\ lastMixBatch # <<>>
    /\ next_epoch # <<>>
    /\ \E f \in 1..next_id : leftEpoch[f] # NONE /\ leftEpoch[f] > enqEpoch[f]

(* C2: every frame pushed by enqueue_at under UniformDelay(min, max) has   *)
(* min <= ready_at - now <= max with min > 0, so its ready_at is strictly  *)
(* later than the now it was enqueued at.                                  *)
C2_DelayBounds ==
    /\ min_ns > 0
    /\ \A f \in DOMAIN dq :
          /\ min_ns <= dq[f].ready_at - dq[f].enq
          /\ dq[f].ready_at - dq[f].enq <= max_ns
          /\ dq[f].ready_at > dq[f].enq
    /\ \A pf \in pending :
          pf.frame \in DOMAIN dq /\ pf.ready_at = dq[pf.frame].ready_at

\* Two frames were enqueued, one with the least and one with the largest
\* delay of a distribution with min < max.
C2_Witness ==
    /\ min_ns < max_ns
    /\ \E f, g \in DOMAIN dq :
          /\ dq[f].ready_at - dq[f].enq = min_ns
          /\ dq[g].ready_at - dq[g].enq = max_ns

(* C3: a frame leaves the heap only in a drain whose now is at or after    *)
(* its ready_at, and a frame enqueued at instant t is never returned by a  *)
(* drain whose now is <= t.                                                *)
C3_NotBeforeReady ==
    \A f \in DOMAIN dq :
        /\ dq[f].collected # NONE => dq[f].ready_at <= dq[f].collected
        /\ dq[f].released # NONE =>
              /\ dq[f].collected # NONE
              /\ dq[f].released >= dq[f].collected
              /\ dq[f].released > dq[f].enq
        /\ (\E i \in 1..Len(ready) : ready[i] = f) =>
              dq[f].collected # NONE

\* A frame was collected at its ready_at, held over in the ready buffer
\* and returned by a later drain.
C3_Witness ==
    \E f \in DOMAIN dq :
        /\ dq[f].collected = dq[f].ready_at
        /\ dq[f].released # NONE
        /\ dq[f].released > dq[f].collected

\* The frames of the heap that are due at the current instant.
DueFrames == {pf.frame : pf \in {q \in pending : q.ready_at <= clock}}

\* All orderings of a set of frames.
Orderings(S) ==
    {q \in [1..Cardinality(S) -> S] : Range(q) = S}

\* A drain at the current instant whose collection appends exactly s.
DrainCollecting(s) == DelayDrain /\ lastCollected' = s

(* C5: the frames that become ready in one collection can be appended to   *)
(* the ready buffer (and so released) in every order: each permutation of  *)
(* the due batch is a possible outcome of the drain, whatever the          *)
(* insertion order and the (ready_at, nonce) order of the frames.          *)
C5_EveryOrderPossible ==
    \A s \in Orderings(DueFrames) :
        s # <<>> => ENABLED DrainCollecting(s)

\* Two frames with the same ready_at, inserted in the order f, g and
\* popped from the heap in the order f, g, were returned as g, f.
C5_Witness ==
    \E f, g \in DOMAIN dq :
        /\ f < g
        /\ dq[f].ready_at = dq[g].ready_at
        /\ lastPopped = <<f, g>>
        /\ lastCollected = <<g, f>>
        /\ lastReleased = <<g, f>>

(* C6: with at least two paths, every rotate_if_due that returns true      *)
(* leaves a current index different from the one before the call, so       *)
(* consecutive path indices of any rotation sequence are distinct.         *)
C6_PathDiversity ==
    n_paths >= 2 =>
        /\ \A i \in 1..(Len(pathTrail) - 1) : pathTrail[i] # pathTrail[i + 1]
        /\ pathTrail[Len(pathTrail)] = current_index
        /\ current_index \in 0..(n_paths - 1)

\* Three paths, at least two rotations, the last of which wrapped around
\* from the last index to index 0.
C6_Witness ==
    /\ n_paths = 3
    /\ lastRotated
    /\ Len(pathTrail) >= 3
    /\ pathTrail[Len(pathTrail) - 1] = 2
    /\ current_index = 0

\* How often frame f occurs in the pipeline: held by the mixing pool, in
\* the heap, in the ready buffer, or returned by drain_ready_at.
Occurrences(f) ==
    Cardinality({i \in 1..Len(current_epoch) : current_epoch[i] = f})
    + Cardinality({i \in 1..Len(next_epoch) : next_epoch[i] = f})
    + Cardinality({pf \in pending : pf.frame = f})
    + Cardinality({i \in 1..Len(ready) : ready[i] = f})
    + (IF f \in DOMAIN dq THEN dq[f].count ELSE 0)

Released(f) == f \in DOMAIN dq /\ dq[f].count = 1

(* C4: in the harness's tick loop every frame that entered is at every     *)
(* moment in exactly one place and is returned by drain_ready_at at most   *)
(* once; when the loop is over both assert_eq hold and every frame was     *)
(* returned exactly once; every frame whose ready_at lies before the tick  *)
(* about to run has been returned; and the loop is never stuck, each of    *)
(* its ticks advancing the clock or ending the run with all frames out.    *)
C4_ExactlyOnce ==
    /\ [](/\ hpc # "panic"
          /\ \A f \in 1..sent : Occurrences(f) = 1
          /\ DOMAIN ingress = 1..sent
          /\ DOMAIN egress = {f \in 1..sent : Released(f)}
          /\ (hpc = "done" =>
                /\ sent = total_frames
                /\ \A f \in 1..total_frames : Released(f)))
    /\ [](hpc = "loop" =>
            \A f \in DOMAIN dq : dq[f].ready_at < clock => Released(f))
    /\ [](hpc = "loop" => clock <= end_tick /\ ENABLED GateTick)
    /\ [][clock' > clock \/ hpc' = "done"]_vars

\* The two-user run is over; its frames left at different ticks.
C4_Witness ==
    /\ hpc = "done"
    /\ users = 2
    /\ total_frames = 4
    /\ \A f \in 1..total_frames : Released(f)
    /\ \E f, g \in DOMAIN egress : egress[f] # egress[g]

(* ---------------------- properties of the binding pump ----------------- *)

\* What the transports saw during the latest release step of the worker.
TickWrites == SubSeq(wire, tickStart + 1, Len(wire))

\* C7 as stated: in a pump tick where the rotation is due and the factory
\* opens the new transport, every frame that drain_ready_at returned in that
\* tick is written to the newly installed transport and none of them to the
\* old one.
C7_AllOnNewTransport ==
    tickRotated =>
        /\ transport # tickOld
        /\ Len(TickWrites) = Len(tickBatch)
        /\ \A i \in 1..Len(TickWrites) :
              /\ TickWrites[i].f = tickBatch[i]
              /\ TickWrites[i].t = transport
              /\ TickWrites[i].t # tickOld

\* C7, amended: in such a tick the frames that drain_ready_at returned are
\* written to the newly installed transport in order up to the first
\* send_bytes error (all of them when no send fails), the frames after the
\* failing one are written nowhere, and none is written to the old transport.
C7_OnNewTransportUpToError ==
    tickRotated =>
        /\ transport # tickOld
        /\ Len(TickWrites) <= Len(tickBatch)
        /\ (~sendFailed => Len(TickWrites) = Len(tickBatch))
        /\ \A i \in 1..Len(TickWrites) :
              /\ TickWrites[i].f = tickBatch[i]
              /\ TickWrites[i].t = transport
              /\ TickWrites[i].t # tickOld
        /\ \A i \in 1..tickStart : wire[i].f \notin Range(tickBatch)

\* A rotated tick with a batch of two frames, both written.
C7_Witness ==
    /\ tickRotated
    /\ Len(tickBatch) = 2
    /\ Len(TickWrites) = 2
    /\ ~sendFailed

\* C8: within one pump tick what the transport sees is the batch returned by
\* drain_ready_at, in the order the delay queue returned it, cut at the first
\* send error; all of it goes to one transport, the one the worker holds.
C8_InOrderWrites ==
    /\ Len(TickWrites) <= Len(tickBatch)
    /\ TickWrites = [i \in 1..Len(TickWrites) |->
                        [t |-> transport, f |-> tickBatch[i]]]
    /\ (ppc = "mix" /\ ~sendFailed => Len(TickWrites) = Len(tickBatch))

\* A tick whose batch holds two different frames, both written, and a tick
\* cut after the first frame of two.
C8_Witness ==
    /\ Len(tickBatch) = 2
    /\ tickBatch[1] # tickBatch[2]
    /\ Len(TickWrites) = 2

\* C9: when send_bytes fails in the send step the TRANSPORT_IO counter has
\* been incremented, the running flag is false, and nothing more is written.
C9_SendErrorCounted ==
    sendFailed =>
        /\ error_counts["TRANSPORT_IO"] >= 1
        /\ ~running
        /\ Len(TickWrites) < Len(tickBatch)

\* A send_bytes error in the send step, and a TRANSPORT_IO counter still at
\* zero.
C9_Witness ==
    /\ sendFailed
    /\ Len(tickBatch) >= 1
    /\ error_counts["TRANSPORT_IO"] = 0

\* The part of C9 the worker does keep: after a failed send the flag is
\* false and the rest of the batch is not written.
C9_SendErrorStops ==
    sendFailed => ~running /\ Len(TickWrites) < Len(tickBatch)

\* How many steps the worker is away from the end of its thread once the
\* flag is false.
StepsToExit(pc) ==
    CASE pc = "release" -> 3
      [] pc = "mix" -> 2
      [] pc = "check" -> 1
      [] OTHER -> 0

Count(x, s) == Cardinality({i \in 1..Len(s) : s[i] = x})

\* How often the pool holds frame f.
MixHeld(f) == Count(f, current_epoch) + Count(f, next_epoch)

\* A drain_batch call on the pool as it stands that returns exactly s.
DrainReturning(s) == MixDrain /\ lastMixBatch' = s

(* C11: the pool conserves frames.  Every frame enqueued so far is either  *)
(* held once (in current_epoch or next_epoch) and was never returned, or   *)
(* is held no more and was returned; a drain_batch call returns exactly    *)
(* the frames it takes out of the pool, each once and as enqueued, so a    *)
(* frame is returned by one call only; the frames of one epoch leave in    *)
(* the epoch that follows the one they entered in; and a whole epoch that  *)
(* waits in next_epoch can be returned in every order.                     *)
C11_Conservation ==
    /\ [](\A f \in 1..next_id :
             /\ MixHeld(f) + (IF leftEpoch[f] = NONE THEN 0 ELSE 1) = 1
             /\ leftEpoch[f] # NONE => leftEpoch[f] = enqEpoch[f] + 1)
    /\ [](Range(current_epoch) \cup Range(next_epoch) \subseteq 1..next_id)
    /\ [][next_id' = next_id =>
             /\ Range(lastMixBatch') \subseteq 1..next_id
             /\ \A f \in 1..next_id :
                   MixHeld(f) = MixHeld(f)' + Count(f, lastMixBatch')]_vars
    /\ [][next_id' # next_id =>
             \A f \in 1..next_id : MixHeld(f)' = MixHeld(f)]_vars
    /\ [](current_epoch = <<>> /\ next_epoch # <<>>
            /\ Len(next_epoch) <= MaxBatch =>
               \A s \in Shuffle(next_epoch) : ENABLED DrainReturning(s))

\* A drain returned a whole epoch of three frames in an order that is
\* neither the order of enqueue nor its reverse.
C11_Witness ==
    /\ Len(lastMixBatch) = 3
    /\ current_epoch = <<>>
    /\ \A f \in Range(lastMixBatch) : enqEpoch[f] = enqEpoch[lastMixBatch[1]]
    /\ lastMixBatch[2] > lastMixBatch[1]
    /\ lastMixBatch[2] > lastMixBatch[3]

(* --------------------- properties of the frame codec ------------------- *)

\* The frame of the worked example: version 2, Data, payload DE AD BE EF.
ExampleFrame ==
    [version |-> 2, frame_type |-> FRAME_TYPE_DATA,
     payload |-> <<222, 173, 190, 239>>]

\* C12: encode_frame accepts (version, type, payload), and decode_frame
\* applied to what it wrote (followed or not by more bytes) returns exactly
\* (version, type, payload) and stands 6 + |payload| bytes into the stream,
\* just behind the bytes written.
C12_RoundTrip ==
    /\ cx_frame # None => cx_wire[1].ok
    /\ (cx_frame # None /\ cx_dec # None) =>
          /\ cx_dec[1].ok
          /\ cx_dec[1].version = cx_frame[1].version
          /\ cx_dec[1].frame_type = cx_frame[1].frame_type
          /\ cx_dec[1].payload = cx_frame[1].payload
          /\ cx_dec[1].consumed = 6 + Len(cx_frame[1].payload)
          /\ SubSeq(cx_stream, 1, cx_dec[1].consumed) = cx_wire[1].bytes

\* A Control frame with a four-byte payload was written and read back from
\* a stream that goes on behind it.
C12_Witness ==
    /\ cx_frame # None
    /\ cx_dec # None
    /\ cx_frame[1].frame_type = FRAME_TYPE_CONTROL
    /\ Len(cx_frame[1].payload) = 4
    /\ Len(cx_stream) > cx_dec[1].consumed
    /\ cx_dec[1].ok

\* C13: the length field written by encode_frame is 2 + |payload|, and the
\* example frame is written as 00 00 00 06 02 02 DE AD BE EF.
C13_LengthCountsHeader ==
    cx_frame # None =>
        /\ u32_from_be_bytes(SubSeq(cx_wire[1].bytes, 1, 4))
              = 2 + Len(cx_frame[1].payload)
        /\ cx_frame[1] = ExampleFrame =>
              cx_wire[1].bytes = <<0, 0, 0, 6, 2, 2, 222, 173, 190, 239>>

\* The example frame was written with the length field 4.
C13_Witness ==
    /\ cx_frame = Some(ExampleFrame)
    /\ cx_wire[1].bytes = <<0, 0, 0, 4, 2, 2, 222, 173, 190, 239>>

\* The length field and the type byte of the stream the decoder read.
StreamLength == u32_from_be_bytes(SubSeq(cx_stream, 1, 4))
StreamHasType == Len(cx_stream) >= 6

\* C14: decode_frame returns an error for every input whose length field
\* is above 1 MiB, for every input whose length field is below 2, and for
\* every input whose type byte is neither 0x01 nor 0x02.
C14_Rejects ==
    (cx_dec # None /\ Len(cx_stream) >= 4) =>
        /\ StreamLength > MAX_FRAME_SIZE => ~cx_dec[1].ok
        /\ StreamLength < 2 => ~cx_dec[1].ok
        /\ (StreamHasType
              /\ cx_stream[6] \notin {FRAME_TYPE_CONTROL, FRAME_TYPE_DATA})
             => ~cx_dec[1].ok

\* A stream with the length field 1 was decoded into a frame.
C14_Witness ==
    /\ cx_dec # None
    /\ Len(cx_stream) >= 4
    /\ StreamLength = 1
    /\ cx_dec[1].ok
    /\ cx_dec[1].payload = <<5>>

\* The part of C14 the decoder does keep: too large a length field and an
\* unknown type byte are errors, and an error returns no frame.
C14_RejectsLargeAndUnknown ==
    (cx_dec # None /\ Len(cx_stream) >= 4) =>
        /\ StreamLength > MAX_FRAME_SIZE => cx_dec[1].err = "FrameTooLarge"
        /\ (StreamLength <= MAX_FRAME_SIZE /\ StreamHasType
              /\ cx_stream[6] \notin {FRAME_TYPE_CONTROL, FRAME_TYPE_DATA})
             => cx_dec[1].err = "InvalidFrameType"
        /\ ~cx_dec[1].ok => cx_dec[1].payload = <<>>

(* ---------------- properties of the engine's inbound side -------------- *)

\* The stream the transport delivers, and where frame k ends in it.
InboundStream == EncodedStream(eng_src, Len(eng_src))
FrameEnd(k) == Len(EncodedStream(eng_src, k))

\* How many frames of the stream were handed over to the last byte.
WholeFrames ==
    CHOOSE k \in 0..Len(eng_src) :
        /\ FrameEnd(k) <= eng_pos
        /\ k < Len(eng_src) => FrameEnd(k + 1) > eng_pos

\* The frames the engine delivers: Data, of its version, with a payload
\* that holds a connection id.
Deliverable(f) ==
    /\ f.version = ANONYMITY_PROTOCOL_VERSION
    /\ f.frame_type = FRAME_TYPE_DATA
    /\ Len(f.payload) >= 4

\* The DataFrames of the deliverable frames among src[1..k], in order.
RECURSIVE DeliveredOf(_)
DeliveredOf(k) ==
    IF k = 0
    THEN <<>>
    ELSE IF Deliverable(eng_src[k])
    THEN Append(DeliveredOf(k - 1),
                [conn_id |-> u32_from_be_bytes(
                                 SubSeq(eng_src[k].payload, 1, 4)),
                 payload |-> SubSeq(eng_src[k].payload, 5,
                                    Len(eng_src[k].payload))])
    ELSE DeliveredOf(k - 1)

\* While only a strict prefix of a frame has arrived the engine keeps
\* exactly those bytes.
PrefixKept ==
    inbound_buffer
        = SubSeq(InboundStream, FrameEnd(WholeFrames) + 1, eng_pos)

\* C15 as stated: a strict prefix of a valid encoded frame is kept and
\* emits nothing, and once its last byte has arrived, however the frame was
\* split, the frame has been emitted exactly once.
C15_EveryFrameEmittedOnce ==
    /\ PrefixKept
    /\ Len(eng_out) = WholeFrames

\* C15, amended: a strict prefix of a valid encoded frame is kept and emits
\* nothing; once its last byte has arrived, however the frame was split, a
\* Data frame of the engine's version whose payload holds a connection id
\* has been emitted exactly once, as it was encoded, and any other frame
\* has been consumed without being emitted.
C15_DataFrameEmittedOnce ==
    /\ PrefixKept
    /\ eng_out = DeliveredOf(WholeFrames)

\* Two deliverable frames arrived in several calls, the last call
\* completing the second one.
C15_Witness ==
    /\ Len(eng_src) = 2
    /\ Deliverable(eng_src[1]) /\ Deliverable(eng_src[2])
    /\ eng_src[1] # eng_src[2]
    /\ eng_pos = Len(InboundStream)
    /\ Len(eng_out) = 2
    /\ Len(eng_last) = 1

(* ------------------- properties of the connection table ---------------- *)

\* C16: whatever default window size was set and whatever
\* consume_send_credits, add_send_credits and poll_control_frames calls
\* were made, the send_window of every connection lies within
\* [0, 2 x initial_window_size].
C16_WindowWithinBounds ==
    \A c \in DOMAIN connections :
        /\ 0 <= connections[c].send_window
        /\ connections[c].send_window
              <= 2 * connections[c].initial_window_size

\* A connection was credited up to twice its initial window, while another
\* connection was opened with a different initial window.
C16_Witness ==
    \E c, d \in DOMAIN connections :
        /\ connections[c].initial_window_size > 0
        /\ connections[c].send_window
              = 2 * connections[c].initial_window_size
        /\ connections[d].initial_window_size
              # connections[c].initial_window_size

\* C17: in every state, consume_send_credits(conn, n) with n above the
\* connection's send_window, or for an unknown conn, returns an error and
\* leaves the whole table as it is; with n <= send_window it succeeds and
\* takes exactly n from send_window, changing nothing else.
C17_ConsumeChecked ==
    \A c \in ConnIds, n \in 0..U32Max :
        LET r == consume_send_credits(Self, c, n)
        IN  IF c \in DOMAIN connections /\ n <= connections[c].send_window
            THEN /\ r.ok
                 /\ ~r.panic
                 /\ r.self.connections[c].send_window
                       = connections[c].send_window - n
                 /\ r.self
                       = [Self EXCEPT !.connections[c].send_window = @ - n]
            ELSE /\ ~r.ok
                 /\ ~r.panic
                 /\ r.self = Self

\* One connection has spent a part of its window, so that a larger n is
\* refused and a smaller one accepted, and the other id is unknown.
C17_Witness ==
    \E c \in DOMAIN connections :
        /\ connections[c].initial_window_size = U32Max \div 2 + 1
        /\ connections[c].send_window
              = connections[c].initial_window_size - DEFAULT_WINDOW_SIZE
        /\ DOMAIN connections = {c}

\* The WindowUpdate frames for connection c among frames.
UpdatesFor(frames, c) == SelectSeq(frames, LAMBDA f : f.conn_id = c)

\* send_window is below one quarter of the initial window.
BelowQuarter(info) == 4 * info.send_window < info.initial_window_size

\* What C18 says of one poll for connection c.
PollAsSpecified(c) ==
    \A r \in poll_control_frames(Self) :
        /\ ~r.panic
        /\ UpdatesFor(r.frames, c)
              = IF BelowQuarter(connections[c])
                THEN <<[conn_id |-> c,
                        credits |-> connections[c].initial_window_size
                                       - connections[c].send_window]>>
                ELSE <<>>
        /\ r.self.connections[c].send_window
              = IF BelowQuarter(connections[c])
                THEN connections[c].initial_window_size
                ELSE connections[c].send_window
        /\ \A again \in poll_control_frames(r.self) :
              /\ ~again.panic
              /\ UpdatesFor(again.frames, c) = <<>>

\* C18: poll_control_frames emits a WindowUpdate for a connection exactly
\* when its send_window is below one quarter of its initial window, with
\* credits = initial_window - send_window, and sets the window back to the
\* initial value, so that a poll repeated at once emits no second
\* WindowUpdate for that connection.
C18_PollRestoresWindow ==
    \A c \in DOMAIN connections : PollAsSpecified(c)

\* A connection whose doubled initial window does not fit a u32 stands
\* below the quarter: one outcome of the poll is a panic, the other emits
\* the update, leaves the window below the quarter and emits again when
\* repeated.
C18_Witness ==
    /\ ~tbl_panicked
    /\ \E c \in DOMAIN connections :
          /\ 2 * connections[c].initial_window_size > U32Max
          /\ BelowQuarter(connections[c])
          /\ \E r \in poll_control_frames(Self) : r.panic
          /\ \E r \in poll_control_frames(Self) :
                /\ ~r.panic
                /\ UpdatesFor(r.frames, c) # <<>>
                /\ r.self.connections[c].send_window
                      # connections[c].initial_window_size
                /\ \E again \in poll_control_frames(r.self) :
                      UpdatesFor(again.frames, c) # <<>>

\* The part of C18 that holds: as long as twice the initial window of
\* every connection fits a u32, each poll is as specified.
C18_PollWithoutOverflow ==
    (\A d \in DOMAIN connections :
        2 * connections[d].initial_window_size <= U32Max)
      => \A c \in DOMAIN connections : PollAsSpecified(c)

\* The steps of a connection's state.
ForwardSteps ==
    {<<"Init", "Init">>, <<"Open", "Open">>, <<"Closing", "Closing">>,
     <<"Init", "Open">>, <<"Open", "Closing">>}

\* C19: a connection's state only moves forward along Init -> Open ->
\* Closing.  finalize_open succeeds exactly from Init and makes it Open,
\* close_connection succeeds exactly from Open and makes it Closing, and
\* each of them called in another state or for an unknown connection
\* returns an error and leaves the whole table, the inflight-open count
\* included, as it is.
C19_StateMachine ==
    /\ [](\A c \in ConnIds :
            LET opened_c == finalize_open(Self, c)
                closed_c == close_connection(Self, c)
                known == c \in DOMAIN connections
            IN  /\ opened_c.ok <=> (known /\ connections[c].state = "Init")
                /\ opened_c.ok =>
                      opened_c.self.connections[c].state = "Open"
                /\ ~opened_c.ok => opened_c.self = Self
                /\ closed_c.ok <=> (known /\ connections[c].state = "Open")
                /\ closed_c.ok =>
                      closed_c.self
                         = [Self EXCEPT !.connections[c].state = "Closing"]
                /\ ~closed_c.ok => closed_c.self = Self)
    /\ [][\A c \in DOMAIN connections \cap DOMAIN connections' :
             <<connections[c].state, connections'[c].state>>
                \in ForwardSteps]_vars

\* One connection went all the way to Closing while the other is still in
\* Init.
C19_Witness ==
    \E c, d \in DOMAIN connections :
        /\ connections[c].state = "Closing"
        /\ connections[d].state = "Init"
        /\ inflight_opens = 1

\* C20: in every reachable state the number of connections is at most
\* max_connections, inflight_opens is at most max_inflight_opens, and the
\* buffered_bytes of every connection is at most max_buffered_bytes.
C20_LimitsHold ==
    /\ Cardinality(DOMAIN connections) <= limits.max_connections
    /\ inflight_opens <= limits.max_inflight_opens
    /\ \A c \in DOMAIN connections :
          connections[c].buffered_bytes <= limits.max_buffered_bytes

\* Every limit is reached at once, and a call that would have gone past one
\* was refused.
C20_Witness ==
    /\ Cardinality(DOMAIN connections) = limits.max_connections
    /\ inflight_opens = limits.max_inflight_opens
    /\ \A c \in DOMAIN connections :
          connections[c].buffered_bytes = limits.max_buffered_bytes
    /\ RejectsOf(Self) > 0

(* --------------- properties of single calls of the pool ---------------- *)

\* C28: drain_batch swaps the epochs only when current_epoch is empty as
\* the call begins and then pops from that one epoch, so the frames one
\* call returns all left in the same epoch, having entered in the same
\* epoch.
C28_OneEpochPerCall ==
    \A i, j \in 1..Len(lastMixBatch) :
        /\ leftEpoch[lastMixBatch[i]] = leftEpoch[lastMixBatch[j]]
        /\ enqEpoch[lastMixBatch[i]] = enqEpoch[lastMixBatch[j]]

\* One drain_batch call returned the last frame of one epoch and, after a
\* swap in the middle of the call, a frame of the epoch that followed.
C28_Witness ==
    /\ Len(lastMixBatch) = 2
    /\ leftEpoch[lastMixBatch[2]] = leftEpoch[lastMixBatch[1]] + 1
    /\ enqEpoch[lastMixBatch[2]] = enqEpoch[lastMixBatch[1]] + 1

(* ------------- properties of single calls of the delay queue ----------- *)

\* No frame of the heap is due at instant now (the heap may be empty).
NothingDue(now) == \A p \in pending : now < p.ready_at

\* C29 as stated: in every reachable state, drain_ready_at(now, max)
\* returns an empty list when the heap is empty, and returns an empty list
\* and leaves the heap untouched when now is earlier than every ready_at.
C29_NothingDueReturnsEmpty ==
    \A now \in 0..MaxTime, max_frames \in 0..MaxBatch :
        NothingDue(now) =>
            \A o \in DelayQueue_drain_ready_at(pending, ready, now,
                                               max_frames) :
                /\ o.drained = <<>>
                /\ o.pending = pending

\* C29, amended: in every reachable state, when the heap is empty or now
\* is earlier than every ready_at, drain_ready_at(now, max) moves nothing
\* out of the heap and returns the first min(max, |ready|) frames that
\* earlier drains left in the ready buffer, so an empty list when that
\* buffer is empty.
C29_NothingDueReturnsBuffered ==
    \A now \in 0..MaxTime, max_frames \in 0..MaxBatch :
        NothingDue(now) =>
            \A o \in DelayQueue_drain_ready_at(pending, ready, now,
                                               max_frames) :
                /\ o.pending = pending
                /\ o.collected = <<>>
                /\ o.drained = SubSeq(ready, 1, Min(max_frames, Len(ready)))
                /\ o.drained \o o.ready = ready
                /\ ready = <<>> => o.drained = <<>>

\* A drain found nothing due in a heap that holds a frame, and returned a
\* frame that an earlier drain, limited by max, had left in the buffer.
C29_Witness ==
    /\ lastCollected = <<>>
    /\ lastReleased # <<>>
    /\ pending # {}
    /\ NothingDue(clock)
    /\ dq[lastReleased[1]].collected < dq[lastReleased[1]].released

\* C30: drain_ready_at returns at most max frames, taken from the front of
\* the ready buffer with the batch just collected behind what earlier
\* drains left, and as many as there are up to max, so that the frame at
\* the front leaves with the next drain whose max is above 0; the buffer
\* is ordered by the drain that collected each frame, and a frame
\* collected by an earlier drain was returned no later than any frame
\* collected by a later one.
C30_BoundedFifoDrain ==
    /\ \A max_frames \in 0..MaxBatch :
          \A o \in DelayQueue_drain_ready_at(pending, ready, clock,
                                             max_frames) :
              /\ Len(o.drained) <= max_frames
              /\ max_frames = 0 => o.ready = ready /\ o.pending = pending
              /\ max_frames > 0 =>
                    /\ o.drained \o o.ready = ready \o o.collected
                    /\ Len(o.drained)
                          = Min(max_frames, Len(ready) + Len(o.collected))
    /\ \A i, j \in 1..Len(ready) :
          /\ dq[ready[i]].collected # NONE
          /\ dq[ready[i]].released = NONE
          /\ i < j => dq[ready[i]].collected <= dq[ready[j]].collected
    /\ \A f, g \in DOMAIN dq :
          (/\ dq[f].collected # NONE
           /\ dq[g].collected # NONE
           /\ dq[f].collected < dq[g].collected
           /\ dq[g].released # NONE)
            => /\ dq[f].released # NONE
               /\ dq[f].released <= dq[g].released

\* A drain limited by max returned a frame that had waited in the buffer
\* and left behind it a frame that it had just collected.
C30_Witness ==
    /\ lastReleased # <<>>
    /\ ready # <<>>
    /\ lastCollected # <<>>
    /\ dq[lastReleased[1]].collected < dq[ready[1]].collected
    /\ dq[lastReleased[1]].collected < dq[lastReleased[1]].released

(* ------------------ more properties of the binding pump ---------------- *)

\* C22: the rotator's current index changes only once the transport of the
\* new path has been opened: a rotation committed in a tick comes with a
\* transport opened in that tick, the transport the worker holds was opened
\* for the rotator's current path, and so was the transport of every write
\* of the tick.
C22_CommitAfterOpen ==
    /\ lastRotated => tickRotated
    /\ ppc \in {"check", "release", "mix", "done"} =>
          opened[transport] = current_index
    /\ \A i \in 1..Len(TickWrites) :
          opened[TickWrites[i].t] = current_index

\* The rotation was committed, the factory then failed, and a frame was
\* written to the transport of the path the rotator has left.
C22_Witness ==
    /\ lastRotated
    /\ ~tickRotated
    /\ ppc = "done"
    /\ transport = tickOld
    /\ Len(TickWrites) >= 1
    /\ opened[TickWrites[1].t] # current_index
    /\ opened[transport] # current_index

\* The rotation of the latest release step was committed and the factory
\* then failed to open the transport of the new path.
OpenFailedOnRotation == lastRotated /\ ~tickRotated

\* C23: when a rotation is due and the factory fails, the frames drained as
\* ready in that iteration are written to the old transport in order, up
\* to the first send error; the flag is false and the worker has left the
\* loop; no transport was opened or installed and nothing was pulled from
\* the protocol engine in that step; and from then on nothing is written,
\* installed, pulled from the engine or taken from the delay queue.
C23_FlushThenStop ==
    /\ [](OpenFailedOnRotation =>
            /\ ppc = "done"
            /\ ~running
            /\ transport = tickOld
            /\ Len(TickWrites) <= Len(tickBatch)
            /\ TickWrites = [i \in 1..Len(TickWrites) |->
                                [t |-> tickOld, f |-> tickBatch[i]]]
            /\ \A i \in 1..tickStart : wire[i].f \notin Range(tickBatch))
    /\ [][(ppc = "release" /\ OpenFailedOnRotation') =>
             /\ <<opened, transport>>' = <<opened, transport>>
             /\ mixVars' = mixVars
             /\ tickBatch' = lastReleased']_vars
    /\ [][OpenFailedOnRotation =>
             /\ OpenFailedOnRotation'
             /\ <<wire, opened, transport>>' = <<wire, opened, transport>>
             /\ <<rotations, lastMixBatch>>' = <<rotations, lastMixBatch>>
             /\ \A f \in 1..next_id : MixHeld(f)' = MixHeld(f)
             /\ <<pending, ready>>' = <<pending, ready>>]_vars

\* The factory failed on a rotation with two frames drained as ready; the
\* first was written to the old transport and the second send failed.
C23_Witness ==
    /\ OpenFailedOnRotation
    /\ Len(tickBatch) = 2
    /\ Len(TickWrites) = 1
    /\ TickWrites[1].t = tickOld
    /\ opened[tickOld] # current_index

\* C25: when the factory fails to open the transport of the initial path,
\* start() returns with the flag false and without a worker: no worker
\* step is possible, no iteration ever ran, every payload enqueued is still
\* in the protocol engine's pool, nothing reached the delay queue or a
\* transport, and it stays so.
C25_NoStartOnOpenFailure ==
    /\ [](ppc = "nostart" =>
            /\ ~running
            /\ ~ENABLED Worker
            /\ iter = 0
            /\ opened = <<>>
            /\ wire = <<>>
            /\ rotations = 0 /\ lastMixBatch = <<>>
            /\ \A f \in 1..next_id : MixHeld(f) = 1
            /\ pending = {} /\ ready = <<>>)
    /\ [][ppc = "nostart" => ppc' = "nostart"]_vars

\* start() failed, and two payloads enqueued before and after it wait in
\* the engine.
C25_Witness ==
    /\ ppc = "nostart"
    /\ ~running
    /\ next_id = 2
    /\ MixHeld(1) = 1 /\ MixHeld(2) = 1

\* C27: once a failed send_bytes has made the worker clear the flag, no
\* frame leaves the protocol engine's mixing pool any more: the frames in
\* the pool at the moment of the failure stay there.
C27_PoolKeptAfterSendError ==
    [][sendFailed =>
          /\ \A f \in 1..next_id : MixHeld(f)' >= MixHeld(f)
          /\ rotations' = rotations]_vars

\* After the failed send the worker went on to its refill: a frame left the
\* pool for the worker's own delay queue in the failing iteration, and the
\* worker has ended with that frame never written.
C27_Witness ==
    /\ sendFailed
    /\ ppc = "done"
    /\ \E p \in pending :
          /\ dq[p.frame].enq = now_l
          /\ MixHeld(p.frame) = 0
          /\ \A i \in 1..Len(wire) : wire[i].f # p.frame

\* Where the worker calls the transport or the factory (lines 73-94) or
\* sleeps (line 107).
WorkerAtIO == ppc \in {"release", "sleep"}

\* C24: the worker holds the mutex of the protocol engine exactly while it
\* stands at engine.drain_batch, a call that can always return; no
\* send_bytes, open_transport or sleep (no step that writes to a transport,
\* opens one or lets time pass) is taken with the worker holding it; and
\* while the worker is at its transport I/O or asleep, a producer that has
\* a payload to enqueue finds the mutex free or held by another producer.
C24_LockOnlyAroundDrain ==
    /\ [](engine_lock = "worker" <=> ppc = "drain")
    /\ [](engine_lock = "worker" => ENABLED WorkerDrain)
    /\ [][(wire' # wire \/ opened' # opened \/ clock' # clock) =>
             engine_lock # "worker" /\ engine_lock' # "worker"]_vars
    /\ [](WorkerAtIO /\ Len(offered) < SharedMaxCalls =>
             \A p \in Producers :
                engine_lock \in Producers \/ ENABLED ProducerLock(p))

\* The worker is at its transport I/O with frames it drained under the
\* mutex before, and a producer holds the mutex meanwhile.
C24_Witness ==
    /\ ppc = "release"
    /\ lastMixBatch # <<>>
    /\ engine_lock \in Producers
    /\ iter > 1

\* How often frame f stands on a transport, in the heap, in the ready
\* buffer, and in the worker's local mixed (between drain_batch and the
\* loop over mixed).
Written(f) == Cardinality({i \in 1..Len(wire) : wire[i].f = f})
HeapHeld(f) == Cardinality({pf \in pending : pf.frame = f})
ReadyHeld(f) == Count(f, ready)
MixedHeld(f) == IF ppc = "enqueue" THEN Count(f, lastMixBatch) ELSE 0
Places(f) ==
    MixHeld(f) + MixedHeld(f) + HeapHeld(f) + ReadyHeld(f) + Written(f)

\* No open_transport and no send_bytes call has failed so far.
NoTransportFailure ==
    ppc # "nostart" /\ ~sendFailed /\ ~OpenFailedOnRotation

\* How far frame f is from the transport: <<0, 0>> once written, then by
\* stage the ready buffer (with its index there), the heap (with the time
\* left until ready_at), mixed, the epoch being drained (with the number of
\* frames popped before it) and the epoch being filled (with the number of
\* frames still to drain before the swap).
Index(f, s) == CHOOSE i \in 1..Len(s) : s[i] = f
Rank(f) ==
    CASE Written(f) > 0 -> <<0, 0>>
      [] ReadyHeld(f) > 0 -> <<1, Index(f, ready)>>
      [] HeapHeld(f) > 0 ->
            LET pf == CHOOSE x \in pending : x.frame = f
            IN  <<2, IF pf.ready_at > clock THEN pf.ready_at - clock ELSE 0>>
      [] MixedHeld(f) > 0 -> <<3, 0>>
      [] Count(f, current_epoch) > 0 ->
            <<4, Len(current_epoch) - Index(f, current_epoch)>>
      [] Count(f, next_epoch) > 0 -> <<5, Len(current_epoch)>>
      [] OTHER -> <<6, 0>>
RankLess(a, b) == a[1] < b[1] \/ (a[1] = b[1] /\ a[2] < b[2])

\* Frame f is due for the step the worker stands at: it is in the ready
\* buffer or due in the heap when the worker drains the delay queue, in the
\* pool at drain_batch, in mixed at the loop over mixed, in the heap when
\* the worker goes to sleep.
DueForStep(f) ==
    \/ ppc = "release" /\ ReadyHeld(f) > 0
    \/ ppc = "release" /\ \E pf \in pending :
                             pf.frame = f /\ pf.ready_at <= now_l
    \/ ppc = "drain" /\ MixHeld(f) > 0
    \/ ppc = "enqueue" /\ MixedHeld(f) > 0
    \/ ppc = "sleep" /\ HeapHeld(f) > 0

C31_OneRotationPerInstant ==
    /\ [][pathTrail' # pathTrail =>
             /\ lastRotated' /\ clock' = clock
             /\ next_rotation' > clock
             /\ ~is_due(clock)']_vars
    /\ [][(~is_due(clock) /\ clock' = clock) =>
             /\ ~lastRotated'
             /\ <<current_index, epoch_nonce, next_rotation, pathTrail>>' =
                   <<current_index, epoch_nonce, next_rotation, pathTrail>>]_vars
    /\ [](is_due(clock) => ENABLED PathRotate)

\* The rotator has rotated twice, at different instants, and a call
\* repeated now would not be due.
C31_Witness ==
    /\ Len(pathTrail) > 2
    /\ lastRotated
    /\ ~is_due(clock)

\* The frame src[k] is of another version than the engine's, or a Control
\* frame.
Foreign(f) ==
    f.version # ANONYMITY_PROTOCOL_VERSION \/ f.frame_type # FRAME_TYPE_DATA

\* C33: whatever was emitted so far comes from complete Data frames of
\* version 2, one payload per such frame and in stream order; a complete
\* frame of another version or of type Control has left the inbound buffer
\* without emitting anything, and the frames after it are delivered all the
\* same.
C33_ForeignFramesSkipped ==
    /\ PrefixKept
    /\ eng_out = DeliveredOf(WholeFrames)
    /\ Len(eng_out)
         <= Cardinality({k \in 1..WholeFrames : ~Foreign(eng_src[k])})
    /\ \A k \in 1..WholeFrames :
          (Foreign(eng_src[k]) /\ k < WholeFrames
               /\ Deliverable(eng_src[k + 1])) =>
             /\ eng_out # <<>>
             /\ eng_out[Len(DeliveredOf(k + 1))].payload
                   = SubSeq(eng_src[k + 1].payload, 5,
                            Len(eng_src[k + 1].payload))

\* A frame of another version or type and, behind it, a Data frame of
\* version 2 arrived in one call, which emitted the second one only.
C33_Witness ==
    /\ Len(eng_src) = 2
    /\ Foreign(eng_src[1])
    /\ Deliverable(eng_src[2])
    /\ eng_pos = Len(InboundStream)
    /\ inbound_buffer = <<>>
    /\ Len(eng_out) = 1
    /\ eng_last = eng_out

\* A frame the decoder accepts: a known type byte and a length field that
\* is within the maximum and counts the payload.
WellFormed(f) ==
    /\ f.frame_type \in {FRAME_TYPE_CONTROL, FRAME_TYPE_DATA}
    /\ f.length <= MAX_FRAME_SIZE
    /\ f.length = Len(f.payload)

\* The DataFrames of the well-formed deliverable frames among src[1..k],
\* in order.
RECURSIVE ValidDelivered(_)
ValidDelivered(k) ==
    IF k = 0
    THEN <<>>
    ELSE IF WellFormed(eng_src[k]) /\ Deliverable(eng_src[k])
    THEN Append(ValidDelivered(k - 1),
                [conn_id |-> u32_from_be_bytes(
                                 SubSeq(eng_src[k].payload, 1, 4)),
                 payload |-> SubSeq(eng_src[k].payload, 5,
                                    Len(eng_src[k].payload))])
    ELSE ValidDelivered(k - 1)

\* C32: once the whole stream has arrived, every valid Data frame of it
\* has been delivered, in order, whether or not a frame with an unknown
\* type byte or a length field above the maximum stands before it.
C32_OffendingFrameDiscarded ==
    eng_pos = Len(PeerStream(eng_src, Len(eng_src))) =>
        eng_out = ValidDelivered(Len(eng_src))

\* A frame with an unknown type byte or an oversized length field and a
\* valid Data frame behind it have arrived completely: nothing was
\* delivered and the engine still holds every byte.
C32_Witness ==
    /\ Len(eng_src) = 2
    /\ ~WellFormed(eng_src[1])
    /\ WellFormed(eng_src[2]) /\ Deliverable(eng_src[2])
    /\ eng_pos = Len(PeerStream(eng_src, Len(eng_src)))
    /\ eng_out = <<>>
    /\ inbound_buffer = PeerStream(eng_src, Len(eng_src))

\* The connections of the table that are in state st.
InState(self, st) ==
    {c \in DOMAIN self.connections : self.connections[c].state = st}

\* C34: finalize_close moves a connection in state Closing to Closed, and
\* for a connection in Init or Open it leaves the table as it is.
C34_FinalizeCloseChecked ==
    \A c \in DOMAIN connections :
       LET after == finalize_close(Self, c)
       IN  IF connections[c].state = "Closing"
           THEN /\ c \in DOMAIN after.connections
                /\ after.connections[c].state = "Closed"
           ELSE after = Self

\* A connection is Open, and finalize_close would take it out of the
\* table.
C34_Witness ==
    \E c \in InState(Self, "Open") :
       /\ c \notin DOMAIN finalize_close(Self, c).connections
       /\ inflight_opens = 0

\* What a rejected call may change: the reject counter named by field,
\* raised by one.
RejectedWith(r, field) ==
    /\ ~r.panic /\ ~r.ok
    /\ r.self.metrics[field] = metrics[field] + 1
    /\ r.self = [Self EXCEPT !.metrics[field] = @ + 1]

\* C35: whatever the arguments, open_connection at max_connections or at
\* max_inflight_opens and add_buffered_bytes beyond max_buffered_bytes
\* return an error, raise the matching reject counter by one and leave
\* everything else as it is; and no call lowers a reject counter.
C35_BreachRejected ==
    /\ \A c \in ConnIds :
          /\ Cardinality(DOMAIN connections) >= limits.max_connections =>
                RejectedWith(open_connection(Self, c), "connections_rejected")
          /\ (Cardinality(DOMAIN connections) < limits.max_connections
                 /\ inflight_opens >= limits.max_inflight_opens) =>
                RejectedWith(open_connection(Self, c), "opens_rejected")
    /\ \A c \in DOMAIN connections, b \in TableBytes :
          connections[c].buffered_bytes + b > limits.max_buffered_bytes =>
             \A r \in add_buffered_bytes(Self, c, b) :
                RejectedWith(r, "buffer_limit_breached")

\* The same without the calls whose sum does not fit usize.
C35_BreachRejectedInRange ==
    /\ \A c \in ConnIds :
          /\ Cardinality(DOMAIN connections) >= limits.max_connections =>
                RejectedWith(open_connection(Self, c), "connections_rejected")
          /\ (Cardinality(DOMAIN connections) < limits.max_connections
                 /\ inflight_opens >= limits.max_inflight_opens) =>
                RejectedWith(open_connection(Self, c), "opens_rejected")
    /\ \A c \in DOMAIN connections, b \in TableBytes :
          (connections[c].buffered_bytes + b > limits.max_buffered_bytes
              /\ connections[c].buffered_bytes + b <= UsizeMax) =>
             \A r \in add_buffered_bytes(Self, c, b) :
                RejectedWith(r, "buffer_limit_breached")

\* A connection has buffered a byte, and adding usize::MAX bytes to it is
\* not rejected.
C35_Witness ==
    \E c \in DOMAIN connections :
       /\ connections[c].buffered_bytes = 1
       /\ \E r \in add_buffered_bytes(Self, c, UsizeMax) : r.ok \/ r.panic

\* C36: inflight_opens is the number of connections in state Init.
C36_InflightCountsInit ==
    inflight_opens = Cardinality(InState(Self, "Init"))

\* No connection is left, inflight_opens still stands at the limit, and
\* open_connection is refused.
C36_Witness ==
    /\ DOMAIN connections = {}
    /\ inflight_opens = limits.max_inflight_opens
    /\ \A c \in ConnIds : ~open_connection(Self, c).ok

\* C39: every recorded length went to a bucket within 0..20; bucket 0 got
\* zero lengths only, bucket i from 1 to 19 the lengths in [2^(i-1), 2^i),
\* and bucket 20 the lengths from 2^19 on.
C39_BucketsArePowersOfTwo ==
    \A k \in 1..Len(obs_lens) :
       LET n == obs_lens[k]
           i == coarse_bucket_index(n)
       IN  /\ i \in 0..(BYTE_BUCKETS - 1)
           /\ bytes_sent_coarse[i] + bytes_received_coarse[i] > 0
           /\ i = 0 <=> n = 0
           /\ (i >= 1 /\ i < BYTE_BUCKETS - 1) =>
                 (Pow2(i - 1) <= n /\ n < Pow2(i))
           /\ i = BYTE_BUCKETS - 1 => n >= Pow2(i - 1)

\* A record of one byte was counted in bucket 0.
C39_Witness ==
    /\ obs_lens = <<1>>
    /\ bytes_sent_coarse[0] = 1

\* C40: get_health returns OK, DEGRADED or FAULTED as stored, and a read
\* of a byte outside the enum returns FAULTED and raises INTERNAL_ASSERT
\* by one.
C40_BadHealthCounted ==
    [][obs_health' # obs_health =>
          IF health_state \in {health_as_u8("OK"), health_as_u8("DEGRADED"),
                               health_as_u8("FAULTED")}
          THEN health_as_u8(obs_health') = health_state
          ELSE /\ obs_health' = "FAULTED"
               /\ error_counts'["INTERNAL_ASSERT"]
                     = error_counts["INTERNAL_ASSERT"] + 1]_vars

\* HEALTH_STATE holds a byte outside the enum, get_health has returned
\* FAULTED, and INTERNAL_ASSERT was never counted.
C40_Witness ==
    /\ health_state = health_as_u8("_Private")
    /\ obs_health = "FAULTED"
    /\ error_counts["INTERNAL_ASSERT"] = 0

(* ------------- properties of the per-connection engine ---------------- *)
\* What queue_data_frame must leave behind when it succeeds: the send
\* window of conn_id lower by n and one more frame at the end of the
\* outbound queue of conn_id, everything else as it was.
QueuedOneFrame(r, conn_id, n) ==
    /\ r.self = [Self EXCEPT !.connections[conn_id].send_window = @ - n]
    /\ conn_id \in DOMAIN r.out
    /\ Len(r.out[conn_id]) =
          (IF conn_id \in DOMAIN outbound_frames
           THEN Len(outbound_frames[conn_id]) ELSE 0) + 1
    /\ \A c \in DOMAIN outbound_frames :
          /\ c \in DOMAIN r.out
          /\ c # conn_id => r.out[c] = outbound_frames[c]
          /\ c = conn_id => Front(r.out[c]) = outbound_frames[c]
    /\ DOMAIN r.out = DOMAIN outbound_frames \cup {conn_id}

\* The contract of queue_data_frame for data of n bytes on conn_id.
QueueDataContract(conn_id, n) ==
    LET r == queue_data_frame(Self, outbound_frames, conn_id, n, 0)
    IN  /\ r.ok <=> (/\ conn_id \in InState(Self, "Open")
                     /\ Self.connections[conn_id].send_window >= n)
        /\ r.ok => QueuedOneFrame(r, conn_id, n)
        /\ ~r.ok => r.self = Self /\ r.out = outbound_frames

C37_ContractWithinU32 ==
    \A conn_id \in ConnIds, n \in EngineDataLens :
        n <= U32Max => QueueDataContract(conn_id, n)

C38_QueuedOrderKept ==
    \A conn_id \in ConnIds :
        /\ \A i, j \in 1..Len(lg_wire[conn_id]) :
              i < j => lg_wire[conn_id][i] < lg_wire[conn_id][j]
        /\ (conn_id \in DOMAIN outbound_frames
              /\ outbound_frames[conn_id] # <<>>)
           => next_outbound_frame(outbound_frames, conn_id).frame
                 = Some(Head(outbound_frames[conn_id]))

\* Two frames of one connection written in the reverse of the order queued.
C38_Witness ==
    \E conn_id \in ConnIds :
        /\ Len(lg_queued[conn_id]) >= 2
        /\ Len(lg_wire[conn_id]) >= 2
        /\ lg_wire[conn_id][1] = lg_queued[conn_id][2]
        /\ lg_wire[conn_id][2] = lg_queued[conn_id][1]

\* The order the pump does keep: every frame written was queued for that
\* connection, and each pass writes the newest frame first.
C38_WrittenWereQueued ==
    \A conn_id \in ConnIds :
        \A i \in 1..Len(lg_wire[conn_id]) :
            \E j \in 1..Len(lg_queued[conn_id]) :
                lg_wire[conn_id][i] = lg_queued[conn_id][j]

====
